---- MODULE Spec2Model ----
(***************************************************************************)
(* A model of the publication pipeline of the site: the BibTeX parser      *)
(* (js/bibtex-parser.js) at the level of characters and regular-expression *)
(* matching, and the publications page that drives it.                     *)
(*                                                                         *)
(* A JavaScript string is a sequence of one-character strings; a           *)
(* JavaScript object is a function from property names (themselves         *)
(* character sequences) to values.                                         *)
(***************************************************************************)
EXTENDS Integers, Sequences, FiniteSets, TLC

\* ------------------------------------------------------------------------
\* Characters and the string built-ins the parser uses

UpperSeq == <<"A","B","C","D","E","F","G","H","I","J","K","L","M",
              "N","O","P","Q","R","S","T","U","V","W","X","Y","Z">>
LowerSeq == <<"a","b","c","d","e","f","g","h","i","j","k","l","m",
              "n","o","p","q","r","s","t","u","v","w","x","y","z">>
DigitSeq == <<"0","1","2","3","4","5","6","7","8","9">>

InSeq(c, seq) == \E i \in 1..Len(seq) : seq[i] = c
IndexOf(c, seq) == CHOOSE i \in 1..Len(seq) : seq[i] = c

\* \w of a regular expression without the u flag: [A-Za-z0-9_]
IsWordChar(c) == InSeq(c, UpperSeq) \/ InSeq(c, LowerSeq) \/ InSeq(c, DigitSeq) \/ c = "_"
\* \s, and the characters String.prototype.trim and parseInt strip
IsSpaceChar(c) == c \in {" ", "\t", "\n", "\r", "\f"}
\* the characters "." does not match and "$" (flag m) stops before
IsLineTerminator(c) == c \in {"\n", "\r"}
IsDigit(c) == InSeq(c, DigitSeq)

ToLowerChar(c) == IF InSeq(c, UpperSeq) THEN LowerSeq[IndexOf(c, UpperSeq)] ELSE c
\* (x \o <<>> is x, held as a tuple rather than as a function expression)
toLowerCase(s) == [i \in 1..Len(s) |-> ToLowerChar(s[i])] \o <<>>

\* s[i .. j-1], positions from 1, j exclusive
Sub(s, i, j) == SubSeq(s, i, j - 1)

Min(S) == CHOOSE x \in S : \A y \in S : x <= y
Max(S) == CHOOSE x \in S : \A y \in S : x >= y

\* the first position from i on whose character satisfies Stop, or Len(s) + 1:
\* where a greedy run of the other characters, started at i, ends
First(s, i, Stop(_)) == Min({ j \in i..Len(s) : Stop(s[j]) } \cup {Len(s) + 1})

NotSpace(c) == ~IsSpaceChar(c)
NotWord(c) == ~IsWordChar(c)
IsComma(c) == c = ","

\* \s*, \w* and [^,]* from position i: the position after the run
SkipSpace(s, i) == First(s, i, NotSpace)
SkipWord(s, i) == First(s, i, NotWord)
SkipNotComma(s, i) == First(s, i, IsComma)

\* s[i .. j], or '' when the run of white space from the start passes j
Between(s, i, j) == IF i > j THEN <<>> ELSE SubSeq(s, i, j)
trim(s) ==
  Between(s, SkipSpace(s, 1), Max({ k \in 1..Len(s) : ~IsSpaceChar(s[k]) } \cup {0}))

\* ------------------------------------------------------------------------
\* JavaScript objects

EmptyObj == [x \in {} |-> <<>>]
Has(o, k) == k \in DOMAIN o
\* o[k] = v
Put(o, k, v) == [x \in DOMAIN o \cup {k} |-> IF x = k THEN v ELSE o[x]]
\* { ...base, ...over }
Spread(base, over) ==
  [x \in DOMAIN base \cup DOMAIN over |-> IF x \in DOMAIN over THEN over[x] ELSE base[x]]

TypeProp == <<"t","y","p","e">>
CiteKeyProp == <<"c","i","t","e","K","e","y">>
YearProp == <<"y","e","a","r">>

\* ------------------------------------------------------------------------
\* BibtexParser.parse

\* bibtex.replace(/%.*$/gm, '')
\* position i lies in a match of %.*$: a "%" at or before it on its line
InComment(s, i) ==
  LET lineStart == Max({ k \in 1..i : IsLineTerminator(s[k]) } \cup {0}) + 1
  IN \E j \in lineStart..i : s[j] = "%"

StripComments(s) ==
  LET keep(x) == ~InComment(s, x[1])
      kept    == SelectSeq([i \in 1..Len(s) |-> <<i, s[i]>>], keep)
  IN [n \in 1..Len(kept) |-> kept[n][2]] \o <<>>

NoMatch == [ok |-> FALSE]

\* the lookahead (?=\s*@|\s*$) at position e
AtEndOrMarker(s, q) == q > Len(s) \/ s[q] = "@"
LookAhead(s, e) == AtEndOrMarker(s, SkipSpace(s, e))
\* the lazy group ([\s\S]*?) started at p ends at the first position where
\* the lookahead holds
ContentEnd(s, p) == Min({ e \in p..(Len(s) + 1) : LookAhead(s, e) })

\* /@(\w+)\s*{\s*([^,]*),\s*([\s\S]*?)(?=\s*@|\s*$)/ anchored at position i,
\* part by part. Each greedy run has one way to succeed: a shorter \w+ or \s*
\* is followed by a character of its own class, and [^,]* must stop at the
\* first comma. The word starts at i + 1 and ends before w, the key starts at
\* k0 and ends before the comma at c, the content starts at p0, ends before e.
EntryMatched(s, i, w, k0, c, p0, e) ==
  [ok |-> TRUE, m1 |-> Sub(s, i + 1, w), m2 |-> Sub(s, k0, c),
   m3 |-> Sub(s, p0, e), last |-> e]
EntryFromContent(s, i, w, k0, c, p0) ==
  EntryMatched(s, i, w, k0, c, p0, ContentEnd(s, p0))
EntryFromComma(s, i, w, k0, c) ==
  IF c > Len(s) THEN NoMatch
  ELSE EntryFromContent(s, i, w, k0, c, SkipSpace(s, c + 1))
EntryFromKey(s, i, w, k0) == EntryFromComma(s, i, w, k0, SkipNotComma(s, k0))
EntryFromBrace(s, i, w, b) ==
  IF b > Len(s) \/ s[b] # "{" THEN NoMatch
  ELSE EntryFromKey(s, i, w, SkipSpace(s, b + 1))
EntryFromWord(s, i, w) ==
  IF w = i + 1 THEN NoMatch ELSE EntryFromBrace(s, i, w, SkipSpace(s, w))

\* (a faulty variant, for comparison: the pattern without its leading @)
EntryMatchNoMarker(s, i) ==
  IF i > Len(s) THEN NoMatch ELSE EntryFromWord(s, i - 1, SkipWord(s, i))

EntryMatchAt(s, i) ==
  IF i > Len(s) \/ s[i] # "@" THEN NoMatch
  ELSE EntryFromWord(s, i, SkipWord(s, i + 1))

\* entryRegex.exec from lastIndex: the leftmost match at or after it
EntryAtFirst(s, starts) ==
  IF starts = {} THEN NoMatch ELSE EntryMatchAt(s, Min(starts))
EntryExec(s, from) ==
  EntryAtFirst(s, { i \in from..Len(s) : EntryMatchAt(s, i).ok })

\* the (.*?)[\"}] part of the field pattern started at v: the position of the
\* first closing character, with no line terminator before it; 0 when none
IsCloserOrBreak(ch) == ch \in {"\"", "}"} \/ IsLineTerminator(ch)
CloserAt(c, e) == IF e <= Len(c) /\ c[e] \in {"\"", "}"} THEN e ELSE 0
ValueEnd(c, v) == CloserAt(c, First(c, v, IsCloserOrBreak))

\* /(\w+)\s*=\s*[{"](.*?)[\"}]/ anchored at position i, part by part: the
\* name starts at i and ends before w, the "=" is at a, the opening character
\* at b, the closing one at e
FieldMatched(c, i, w, b, e) ==
  IF e = 0 THEN NoMatch
  ELSE [ok |-> TRUE, m1 |-> Sub(c, i, w), m2 |-> Sub(c, b + 1, e), last |-> e + 1]
FieldFromOpener(c, i, w, b) ==
  IF b > Len(c) \/ c[b] \notin {"{", "\""} THEN NoMatch
  ELSE FieldMatched(c, i, w, b, ValueEnd(c, b + 1))
FieldFromEquals(c, i, w, a) ==
  IF a > Len(c) \/ c[a] # "=" THEN NoMatch
  ELSE FieldFromOpener(c, i, w, SkipSpace(c, a + 1))
FieldFromWord(c, i, w) == FieldFromEquals(c, i, w, SkipSpace(c, w))
FieldMatchAt(c, i) ==
  IF i > Len(c) \/ ~IsWordChar(c[i]) THEN NoMatch
  ELSE FieldFromWord(c, i, SkipWord(c, i))

\* fieldRegex.exec from lastIndex
FieldAtFirst(c, starts) ==
  IF starts = {} THEN NoMatch ELSE FieldMatchAt(c, Min(starts))
FieldExec(c, from) ==
  FieldAtFirst(c, { i \in from..Len(c) : FieldMatchAt(c, i).ok })

\* the while loop of parseFields from lastIndex on, and its body for match m
RECURSIVE FieldLoop(_, _, _)
FieldBody(c, fields, m) ==
  IF ~m.ok THEN fields
  ELSE FieldLoop(c, m.last, Put(fields, toLowerCase(m.m1), trim(m.m2)))
FieldLoop(c, from, fields) == FieldBody(c, fields, FieldExec(c, from))

parseFields(content) == FieldLoop(content, 1, EmptyObj)

AcceptedTypes ==
  { <<"a","r","t","i","c","l","e">>,
    <<"i","n","p","r","o","c","e","e","d","i","n","g","s">>,
    <<"c","o","n","f","e","r","e","n","c","e">>,
    <<"b","o","o","k">>,
    <<"t","e","c","h","r","e","p","o","r","t">>,
    <<"p","h","d","t","h","e","s","i","s">>,
    <<"m","a","s","t","e","r","s","t","h","e","s","i","s">>,
    <<"m","i","s","c">> }

\* { type, citeKey, ...fields }
MakeEntry(type, citeKey, fields) ==
  Spread(Put(Put(EmptyObj, TypeProp, type), CiteKeyProp, citeKey), fields)

\* one iteration of the while loop: what it pushes on this.entries and on
\* this.errors. No statement of the try block can throw on a match of
\* entryRegex, so the catch clause never runs and nothing is pushed on errors
TryBlock(type, citeKey, content) ==
  IF type \in AcceptedTypes
  THEN [entries |-> <<MakeEntry(type, citeKey, parseFields(content))>>, errors |-> <<>>]
  ELSE [entries |-> <<>>, errors |-> <<>>]
EntryStep(m) == TryBlock(toLowerCase(m.m1), trim(m.m2), trim(m.m3))

\* (a faulty variant, for comparison: an entry replaces the earlier entries
\* of its key)
PushedLastWins(one, rest) ==
  LET later(e) == \E k \in 1..Len(rest.entries) :
                     rest.entries[k][CiteKeyProp] = e[CiteKeyProp]
      unique(e) == ~later(e)
  IN [entries |-> SelectSeq(one.entries, unique) \o rest.entries,
      errors |-> one.errors \o rest.errors]

RECURSIVE EntryLoopLastWins(_, _)
EntryBodyLastWins(s, m) ==
  IF ~m.ok THEN [entries |-> <<>>, errors |-> <<>>]
  ELSE PushedLastWins(EntryStep(m), EntryLoopLastWins(s, m.last))
EntryLoopLastWins(s, from) == EntryBodyLastWins(s, EntryExec(s, from))

\* what one iteration pushed, then what the iterations after it pushed
PushedThen(one, rest) ==
  [entries |-> one.entries \o rest.entries, errors |-> one.errors \o rest.errors]

\* the while loop from lastIndex on: everything it pushes, in order
RECURSIVE EntryLoop(_, _)
EntryBody(s, m) ==
  IF ~m.ok THEN [entries |-> <<>>, errors |-> <<>>]
  ELSE PushedThen(EntryStep(m), EntryLoop(s, m.last))
EntryLoop(s, from) == EntryBody(s, EntryExec(s, from))

\* lines 21-46 on the text: comments removed, then the loop
Pushed(text) == EntryLoop(StripComments(text), 1)

\* (a faulty variant, for comparison: parse without the two assignments)
KeepState(kept) == kept

\* this.entries = []; this.errors = []
ResetState(kept) == [entries |-> <<>>, errors |-> <<>>]

\* parse(text) run on a parser holding `kept`: the state it leaves, given
\* what the loop pushes
parseWith(kept, pushed) ==
  LET st == ResetState(kept)
  IN [entries |-> st.entries \o pushed.entries, errors |-> st.errors \o pushed.errors]

parse(kept, text) == parseWith(kept, Pushed(text))

\* sortByYear ------------------------------------------------------------

\* a JavaScript number: an integer or NaN
Num(n) == [nan |-> FALSE, val |-> n]
NaN == [nan |-> TRUE, val |-> 0]
ZeroStr == <<"0">>

RECURSIVE DigitsValue(_, _, _)
DigitsValue(s, i, acc) ==
  IF i <= Len(s) /\ IsDigit(s[i])
  THEN DigitsValue(s, i + 1, acc * 10 + (IndexOf(s[i], DigitSeq) - 1))
  ELSE acc

\* parseInt(s) with no radix, for strings without a 0x prefix: leading white
\* space is skipped, a sign is read, then the longest run of decimal digits;
\* no digit at all gives NaN
Digits(s, j, neg) ==
  IF j > Len(s) \/ ~IsDigit(s[j]) THEN NaN
  ELSE IF neg THEN Num(0 - DigitsValue(s, j, 0)) ELSE Num(DigitsValue(s, j, 0))
Signed(s, i) ==
  Digits(s, IF i <= Len(s) /\ s[i] \in {"-", "+"} THEN i + 1 ELSE i,
         i <= Len(s) /\ s[i] = "-")
parseInt(s) == Signed(s, SkipSpace(s, 1))

\* parseInt(a.year || '0'): an absent or empty year is falsy
YearOf(a) ==
  parseInt(IF Has(a, YearProp) /\ a[YearProp] # <<>> THEN a[YearProp] ELSE ZeroStr)

\* the comparator (a, b) => yearB - yearA; a NaN result is taken as +0 by sort
Difference(yearB, yearA) ==
  IF yearA.nan \/ yearB.nan THEN 0 ELSE yearB.val - yearA.val
Compare(a, b) == Difference(YearOf(b), YearOf(a))

\* ECMAScript's "consistent comparator" conditions, for the comparison
\* results c over the positions I of a list
ConsistentOn(I, c) ==
  /\ \A i, j \in I : (c[i, j] = 0) => (c[j, i] = 0)
  /\ \A i, j, k \in I : (c[i, j] = 0 /\ c[j, k] = 0) => (c[i, k] = 0)
  /\ \A i, j, k \in I : (c[i, j] < 0 /\ c[j, k] < 0) => (c[i, k] < 0)
  /\ \A i, j, k \in I : (c[i, j] > 0 /\ c[j, k] > 0) => (c[i, k] > 0)
Consistent(list) ==
  ConsistentOn(1..Len(list),
               [i \in 1..Len(list), j \in 1..Len(list) |-> Compare(list[i], list[j])])

\* insertion of x behind every element that does not compare greater than it
RECURSIVE InsertStable(_, _)
InsertStable(sorted, x) ==
  IF sorted = <<>> THEN <<x>>
  ELSE IF Compare(sorted[Len(sorted)], x) > 0
       THEN Append(InsertStable(SubSeq(sorted, 1, Len(sorted) - 1), x), sorted[Len(sorted)])
       ELSE Append(sorted, x)

RECURSIVE StableSort(_, _)
StableSort(list, n) ==
  IF n = 0 THEN <<>> ELSE InsertStable(StableSort(list, n - 1), list[n])

Reorderings(list) ==
  { [i \in 1..Len(list) |-> list[p[i]]] : p \in Permutations(1..Len(list)) }

\* Array.prototype.sort: stable; the order is implementation-defined when
\* the comparator is not consistent
SortOutcomes(list) ==
  IF Consistent(list) THEN { StableSort(list, Len(list)) } ELSE Reorderings(list)

\* filterByType ----------------------------------------------------------

sAll == <<"a","l","l">>
sJournal == <<"j","o","u","r","n","a","l">>
sConference == <<"c","o","n","f","e","r","e","n","c","e">>
sPreprint == <<"p","r","e","p","r","i","n","t">>
sArticle == <<"a","r","t","i","c","l","e">>
sInproceedings == <<"i","n","p","r","o","c","e","e","d","i","n","g","s">>
sMisc == <<"m","i","s","c">>
sUnpublished == <<"u","n","p","u","b","l","i","s","h","e","d">>
sConstructor == <<"c","o","n","s","t","r","u","c","t","o","r">>
sToString == <<"t","o","S","t","r","i","n","g">>
sValueOf == <<"v","a","l","u","e","O","f">>

\* what a property read gives: an array, a function object, or undefined
ArrayOf(items) == [kind |-> "array", items |-> items]
FunctionObject == [kind |-> "function", items |-> <<>>]
Undefined == [kind |-> "undefined", items |-> <<>>]

\* what a call gives: the value returned, or the TypeError thrown
Returned(v) == [threw |-> FALSE, val |-> v]
TypeError == [threw |-> TRUE, val |-> <<>>]

\* typeMap[type]: the three own properties of the literal, and, the literal
\* being an ordinary object, the properties it inherits from Object.prototype
typeMap(type) ==
  IF type = sJournal THEN ArrayOf(<<sArticle>>)
  ELSE IF type = sConference THEN ArrayOf(<<sInproceedings, sConference>>)
  ELSE IF type = sPreprint THEN ArrayOf(<<sMisc, sUnpublished>>)
  ELSE IF type \in {sConstructor, sToString, sValueOf} THEN FunctionObject
  ELSE Undefined

\* what filterByType(type) gives on a parser holding list. types.includes is
\* called once per entry and is undefined when types is not an array: the
\* call then throws a TypeError
Filtered(list, types) ==
  IF types.kind = "function"
  THEN IF list = <<>> THEN Returned(<<>>) ELSE TypeError
  ELSE LET includes(entry) == InSeq(entry[TypeProp], types.items)
       IN Returned(SelectSeq(list, includes))
OrArrayOf(found, type) ==
  IF found.kind # "undefined" THEN found ELSE ArrayOf(<<type>>)
filterByType(list, type) ==
  IF type = sAll THEN Returned(list)
  ELSE Filtered(list, OrArrayOf(typeMap(type), type))

\* ------------------------------------------------------------------------
\* The texts given to the parser: up to MaxBlocks pieces, each a block
\* written out from its structure, or raw text

MaxBlocks == 2

Field(name, value, open, close) ==
  [name |-> name, value |-> value, open |-> open, close |-> close]
Block(type, key, comma, fields) ==
  [kind |-> "block", type |-> type, key |-> key, comma |-> comma,
   fields |-> fields, raw |-> <<>>]
Raw(text) ==
  [kind |-> "raw", type |-> <<>>, key |-> <<>>, comma |-> FALSE,
   fields |-> <<>>, raw |-> text]

sTitle == <<"T","i","t","l","e">>
sType == <<"T","y","p","e">>
sFoo == <<"f","o","o">>

PieceSeq ==
  << \* 1: @article{a, year = {21}}
     Block(sArticle, <<"a">>, TRUE, <<Field(YearProp, <<"2","1">>, "{", "}")>>),
     \* 2: @Misc{ a , Title = { T }, year = "20"}: the key of piece 1
     Block(<<"M","i","s","c">>, <<" ","a"," ">>, TRUE,
           <<Field(sTitle, <<" ","T"," ">>, "{", "}"),
             Field(YearProp, <<"2","0">>, "\"", "\"")>>),
     \* 3: @inproceedings{b, year = {ab}}: a year that is no number
     Block(sInproceedings, <<"b">>, TRUE, <<Field(YearProp, <<"a","b">>, "{", "}")>>),
     \* 4: @foo{c, year = {21}}: a type that is not accepted
     Block(sFoo, <<"c">>, TRUE, <<Field(YearProp, <<"2","1">>, "{", "}")>>),
     \* 5: @misc{e, Type = {x}}: no year, and a field named Type
     Block(sMisc, <<"e">>, TRUE, <<Field(sType, <<"x">>, "{", "}")>>),
     \* 6: @misc{m year = {20}}: no comma after the key
     Block(sMisc, <<"m">>, FALSE, <<Field(YearProp, <<"2","0">>, "{", "}")>>),
     \* 7: a comment line, then a block that lacks its @
     Raw(<<"%"," ","n","\n","m","i","s","c","{","j",","," ",
           "y","e","a","r","=","{","2","0","}","}","\n">>),
     \* 8: @misc{, year = {20}}: an empty key
     Block(sMisc, <<>>, TRUE, <<Field(YearProp, <<"2","0">>, "{", "}")>>),
     \* 9: @misc{n, Title = {a {b}c}}: a value with an inner group
     Block(sMisc, <<"n">>, TRUE,
           <<Field(sTitle, <<"a"," ","{","b","}","c">>, "{", "}")>>),
     \* 10: @misc{q, Title = {a"b{c}}}: a quote before the inner group
     Block(sMisc, <<"q">>, TRUE,
           <<Field(sTitle, <<"a","\"","b","{","c","}">>, "{", "}")>>),
     \* 11: @misc{r, Title = {a(newline){b}c}}: a line break before the inner
     \* group
     Block(sMisc, <<"r">>, TRUE,
           <<Field(sTitle, <<"a","\n","{","b","}","c">>, "{", "}")>>),
     \* 12: @misc{x, year = {constructor}}: a year named like a property
     \* every object inherits
     Block(sMisc, <<"x">>, TRUE, <<Field(YearProp, sConstructor, "{", "}")>>) >>

PieceIds == 1..Len(PieceSeq)

RenderField(f) == f.name \o <<" ", "=", " ", f.open>> \o f.value \o <<f.close>>

RECURSIVE RenderFields(_)
RenderFields(fs) ==
  IF fs = <<>> THEN <<>>
  ELSE IF Len(fs) = 1 THEN RenderField(fs[1])
  ELSE RenderField(fs[1]) \o <<",", "\n", " ", " ">> \o RenderFields(Tail(fs))

RenderPiece(p) ==
  IF p.kind = "raw" THEN p.raw
  ELSE <<"@">> \o p.type \o <<"{">> \o p.key
       \o (IF p.comma THEN <<",">> ELSE <<>>) \o <<"\n", " ", " ">>
       \o RenderFields(p.fields) \o <<"\n", "}", "\n">>

RECURSIVE Render(_)
Render(ids) ==
  IF ids = <<>> THEN <<>> ELSE RenderPiece(PieceSeq[ids[1]]) \o Render(Tail(ids))

\* the texts, as lists of piece numbers
PieceLists == UNION { [1..n -> PieceIds] : n \in 0..MaxBlocks }

\* each text, and what the parse loop pushes for it (computed once)
TextOf == [ids \in PieceLists |-> Render(ids)] @@ EmptyObj
PushedOf == [ids \in PieceLists |-> Pushed(Render(ids))] @@ EmptyObj

\* the arguments given to filterByType
sX == <<"x">>
FilterArgs == { sAll, sJournal, sConference, sPreprint, sMisc, sX, sConstructor }

\* ------------------------------------------------------------------------
\* The data of the publications page

\* a value that is null or a string
Null == [isNull |-> TRUE, val |-> <<>>]
Str(text) == [isNull |-> FALSE, val |-> text]

\* a || b for a null-or-string a and a string b: null and '' are falsy
OrElse(a, b) == IF ~a.isNull /\ a.val # <<>> THEN a.val ELSE b

\* one block of the built-in dataset, of which the year field is kept
DefaultBlock(type, key, year) ==
  <<"@">> \o type \o <<"{">> \o key \o <<",", "\n", " ", " ">>
  \o YearProp \o <<"=", "{">> \o year \o <<"}", "\n", "}", "\n", "\n">>

\* let defaultBibData = `...`: three blocks between a newline and two blanks
defaultBibData ==
  <<"\n">>
  \o DefaultBlock(sArticle,
        <<"s","m","i","t","h","2","0","2","3","a","d","v","a","n","c","e","s">>,
        <<"2","0","2","3">>)
  \o DefaultBlock(sInproceedings,
        <<"j","o","h","n","s","o","n","2","0","2","2","d","e","e","p">>,
        <<"2","0","2","2">>)
  \o DefaultBlock(sArticle,
        <<"c","h","e","n","2","0","2","1","s","u","r","v","e","y">>,
        <<"2","0","2","1">>)
  \o <<" ", " ">>

\* the texts data/publications.bib and the uploaded files can hold:
\* the empty text, one article, an inproceedings block before an article
BibFileIds == { <<>>, <<1>>, <<3, 1>> }
BibFiles == { TextOf[ids] : ids \in BibFileIds }

\* what the parse loop pushes for the texts of the page (computed once)
PushedDefault == Pushed(defaultBibData)
PagePushed(text) ==
  IF text = defaultBibData THEN PushedDefault
  ELSE PushedOf[CHOOSE ids \in PieceLists : TextOf[ids] = text]

\* the data-filter attributes of the filter buttons
FilterButtons == { sAll, sJournal, sConference, sPreprint }

\* the contents of the publications container
Showing(kind, items) == [kind |-> kind, items |-> items]

\* at most MaxFrames animation-frame callbacks are pending at a time
MaxFrames == 1

\* ------------------------------------------------------------------------
\* The animation-frame callback of renderPublications: the year sections

sUnknown == <<"U","n","k","n","o","w","n">>

\* pub.year || 'Unknown'
YearKey(pub) ==
  IF Has(pub, YearProp) /\ pub[YearProp] # <<>> THEN pub[YearProp] ELSE sUnknown

\* publicationsByYear is an object literal: besides its own properties it
\* has those it inherits from Object.prototype (constructor, toString and
\* valueOf among them), whose values are functions
InheritedProps == {sConstructor, sToString, sValueOf}

\* publicationsByYear: its own properties in the order of their creation,
\* each with its array
YearGroup(year, pubs) == [year |-> year, pubs |-> pubs]
OwnYears(groups) == { groups[k].year : k \in 1..Len(groups) }
GroupAt(groups, year) == CHOOSE k \in 1..Len(groups) : groups[k].year = year

\* publicationsByYear[year].push(pub), after the array was created if the
\* property read gave a falsy value; an inherited function has no push
PushedOnYear(groups, year, pub) ==
  IF year \in OwnYears(groups)
  THEN Returned([groups EXCEPT ![GroupAt(groups, year)].pubs = Append(@, pub)])
  ELSE IF year \in InheritedProps THEN TypeError
  ELSE Returned(Append(groups, YearGroup(year, <<pub>>)))

\* filteredPublications.forEach(pub => ...), from entry i on
RECURSIVE GroupLoop(_, _, _)
GroupStep(list, i, pushed) ==
  IF pushed.threw THEN TypeError ELSE GroupLoop(list, i + 1, pushed.val)
GroupLoop(list, i, groups) ==
  IF i > Len(list) THEN Returned(groups)
  ELSE GroupStep(list, i, PushedOnYear(groups, YearKey(list[i]), list[i]))
GroupByYear(list) == GroupLoop(list, 1, <<>>)

\* a < b for canonical decimal forms a and b
DecimalLess(a, b) ==
  \/ Len(a) < Len(b)
  \/ /\ Len(a) = Len(b)
     /\ \E k \in 1..Len(a) :
          /\ IndexOf(a[k], DigitSeq) < IndexOf(b[k], DigitSeq)
          /\ \A j \in 1..(k - 1) : a[j] = b[j]

\* an integer index: the canonical decimal form of an integer below 2^32 - 1
IndexLimit == <<"4","2","9","4","9","6","7","2","9","5">>
IsIndexKey(key) ==
  /\ key # <<>>
  /\ \A k \in 1..Len(key) : IsDigit(key[k])
  /\ Len(key) > 1 => key[1] # "0"
  /\ DecimalLess(key, IndexLimit)

\* Object.keys(publicationsByYear): the integer indices in ascending numeric
\* order, then the other names in the order of their creation
RECURSIVE Ascending(_)
Ascending(S) ==
  IF S = {} THEN <<>>
  ELSE LET least == CHOOSE x \in S : \A y \in S \ {x} : DecimalLess(x, y)
       IN <<least>> \o Ascending(S \ {least})
NotIndexKey(key) == ~IsIndexKey(key)
CreationOrder(groups) == [k \in 1..Len(groups) |-> groups[k].year] \o <<>>
ObjectKeys(groups) ==
  Ascending({ y \in OwnYears(groups) : IsIndexKey(y) })
  \o SelectSeq(CreationOrder(groups), NotIndexKey)

\* the comparator of the year sort; a NaN result is taken as +0 by sort
YearCompare(a, b) ==
  IF a = sUnknown THEN 1
  ELSE IF b = sUnknown THEN -1
  ELSE Difference(parseInt(b), parseInt(a))

YearsConsistent(keys) ==
  ConsistentOn(1..Len(keys),
               [i \in 1..Len(keys), j \in 1..Len(keys) |-> YearCompare(keys[i], keys[j])])

RECURSIVE InsertYear(_, _)
InsertYear(sorted, x) ==
  IF sorted = <<>> THEN <<x>>
  ELSE IF YearCompare(sorted[Len(sorted)], x) > 0
       THEN Append(InsertYear(SubSeq(sorted, 1, Len(sorted) - 1), x), sorted[Len(sorted)])
       ELSE Append(sorted, x)

RECURSIVE SortYears(_, _)
SortYears(keys, n) ==
  IF n = 0 THEN <<>> ELSE InsertYear(SortYears(keys, n - 1), keys[n])

\* Object.keys(publicationsByYear).sort(...): stable; the order is
\* implementation-defined when the comparator is not consistent
SortedYears(keys) ==
  IF YearsConsistent(keys) THEN { SortYears(keys, Len(keys)) } ELSE Reorderings(keys)

\* data-key="${pub.citeKey || pub.key || pub.id}"
sKey == <<"k","e","y">>
sId == <<"i","d">>
sUndefined == <<"u","n","d","e","f","i","n","e","d">>
Truthy(o, k) == Has(o, k) /\ o[k] # <<>>
DataKey(pub) ==
  IF Truthy(pub, CiteKeyProp) THEN pub[CiteKeyProp]
  ELSE IF Truthy(pub, sKey) THEN pub[sKey]
  ELSE IF Has(pub, sId) THEN pub[sId]
  ELSE sUndefined

\* createPublicationElement(pub, false), as far as the list goes: the
\* publication item of pub and the data-key of its Cite link
PublicationItem(pub) == [pub |-> pub, dataKey |-> DataKey(pub)]
ItemsOf(pubs) == [k \in 1..Len(pubs) |-> PublicationItem(pubs[k])] \o <<>>

\* sortedYears.forEach(year => ...): one year section per name, in order
YearSection(groups, year) ==
  [year |-> year, items |-> ItemsOf(groups[GroupAt(groups, year)].pubs)]
SectionsIn(groups, years) ==
  [k \in 1..Len(years) |-> YearSection(groups, years[k])] \o <<>>

\* ------------------------------------------------------------------------
\* What is made of one publication: the citation text of showBibtex and the
\* publication item of createPublicationElement

\* pub[name]: the value of the field, undefined when the entry has none
Read(pub, name) == IF Has(pub, name) THEN Str(pub[name]) ELSE Null

\* undefined, null and '' are falsy
IsTruthy(v) == ~v.isNull /\ v.val # <<>>

sTitleProp == <<"t","i","t","l","e">>
sAuthor == <<"a","u","t","h","o","r">>
sBooktitle == <<"b","o","o","k","t","i","t","l","e">>
sVolume == <<"v","o","l","u","m","e">>
sNumber == <<"n","u","m","b","e","r">>
sPages == <<"p","a","g","e","s">>
sPublisher == <<"p","u","b","l","i","s","h","e","r">>

\* ${publication[name] ? `name={...}close` : ''}
OptionalLine(publication, name, close) ==
  IF IsTruthy(Read(publication, name))
  THEN name \o <<"=", "{">> \o publication[name] \o <<"}">> \o close
  ELSE <<>>

\* name={${publication[name] || ''}},
MandatoryLine(publication, name) ==
  name \o <<"=", "{">> \o OrElse(Read(publication, name), <<>>) \o <<"}", ",">>

NewLine == <<"\n", " ", " ">>

\* const bibtexText = `@${publication.type}{${publication.citeKey}, ...}`
bibtexText(publication) ==
  <<"@">> \o publication[TypeProp] \o <<"{">> \o publication[CiteKeyProp] \o <<",">>
  \o NewLine \o MandatoryLine(publication, sTitleProp)
  \o NewLine \o MandatoryLine(publication, sAuthor)
  \o NewLine \o OptionalLine(publication, sJournal, <<",">>)
  \o NewLine \o OptionalLine(publication, sBooktitle, <<",">>)
  \o NewLine \o OptionalLine(publication, sVolume, <<",">>)
  \o NewLine \o OptionalLine(publication, sNumber, <<",">>)
  \o NewLine \o OptionalLine(publication, sPages, <<",">>)
  \o NewLine \o OptionalLine(publication, YearProp, <<",">>)
  \o NewLine \o OptionalLine(publication, sPublisher, <<>>)
  \o <<"\n", "}">>

\* ------------------------------------------------------------------------
\* The publications, configurations and coauthor data given to the
\* rendering functions

\* an object with the properties of a list of name-value pairs
RECURSIVE ObjectOf(_)
ObjectOf(pairs) ==
  IF pairs = <<>> THEN EmptyObj
  ELSE Put(ObjectOf(SubSeq(pairs, 1, Len(pairs) - 1)),
           pairs[Len(pairs)][1], pairs[Len(pairs)][2])

sUrl == <<"u","r","l">>
sPdf == <<"p","d","f">>
sGithub == <<"g","i","t","h","u","b">>
sCode == <<"c","o","d","e">>
sDoi == <<"d","o","i">>
sBook == <<"b","o","o","k">>
sChaofengChen == <<"C","h","a","o","f","e","n","g"," ","C","h","e","n">>

\* entries as parse makes them
PoolPubs ==
  { \* an article with most fields; J (K) has an abbreviation in parentheses
    MakeEntry(sArticle, <<"a">>,
      ObjectOf(<< <<sTitleProp, <<"T">>>>, <<sAuthor, <<"A"," ","a","n","d"," ","B"," ","a","n","d"," ","C">>>>,
                  <<sJournal, <<"J"," ","(","K",")">>>>, <<YearProp, <<"2","1">>>>,
                  <<sVolume, <<"1">>>>, <<sDoi, <<"d">>>> >>)),
    \* a misc entry with a year and nothing else
    MakeEntry(sMisc, <<"e">>, ObjectOf(<< <<YearProp, <<"2","0">>>> >>)),
    \* an inproceedings entry with an empty title
    MakeEntry(sInproceedings, <<"b">>,
      ObjectOf(<< <<sTitleProp, <<>>>>, <<sAuthor, <<"C","h","a","o","f","e","n","g"," ","C","h","e","n"," ","a","n","d"," "," ","B">>>>,
                  <<sBooktitle, <<"P">>>>, <<sPublisher, <<"Q">>>>,
                  <<YearProp, <<"2","1">>>> >>)),
    \* a conference entry with a journal and no booktitle, and no year
    MakeEntry(sConference, <<"c">>,
      ObjectOf(<< <<sTitleProp, <<"T">>>>, <<sAuthor, <<"B">>>>,
                  <<sJournal, <<"J">>>> >>)),
    \* a book with a journal, a booktitle and a publisher
    MakeEntry(sBook, <<"k">>,
      ObjectOf(<< <<sTitleProp, <<"T">>>>, <<sAuthor, <<"A"," ","a","n","d"," ","B">>>>,
                  <<sJournal, <<"J">>>>, <<sBooktitle, <<"P">>>>,
                  <<sPublisher, <<"Q">>>>, <<YearProp, <<"2","0">>>> >>)) }

\* a misc entry with some of the link fields; an empty value is that of a
\* field written as name = {}
LinkFields ==
  << <<sUrl, <<"u">>>>, <<sPdf, <<"q">>>>, <<sGithub, <<"h">>>>,
     <<sCode, <<"c">>>>, <<sDoi, <<"d">>>> >>
LinkFieldsOf(S) ==
  LET chosen(k) == k \in S IN
  ObjectOf([k \in 1..Cardinality(S) |->
              LinkFields[SelectSeq(<<1, 2, 3, 4, 5>>, chosen)[k]]] \o <<>>)
LinkPubs ==
  { MakeEntry(sMisc, <<"m">>, LinkFieldsOf(S)) : S \in SUBSET (1..5) }
  \cup { MakeEntry(sMisc, <<"m">>,
           ObjectOf(<< <<sUrl, <<>>>>, <<sPdf, <<"q">>>>,
                       <<sGithub, <<>>>>, <<sCode, <<"c">>>> >>)) }

Pubs == PoolPubs \cup LinkPubs

\* publicationConfig.publications[pub.citeKey] || {}: each property a string
\* or undefined, the two author lists arrays ([] when undefined)
PubConfig(venue, accept_info, pdf, github, code, co_first_authors,
          corresponding_authors) ==
  [venue |-> venue, accept_info |-> accept_info, pdf |-> pdf,
   github |-> github, code |-> code, co_first_authors |-> co_first_authors,
   corresponding_authors |-> corresponding_authors]
NoPubConfig == PubConfig(Null, Null, Null, Null, Null, <<>>, <<>>)

\* what a rendering function is given: the publication, its configuration,
\* coauthorsData.coauthors, whether the body has the class publications-page,
\* and, for the callback of renderPublications, the filtered list
Given(pub, pubConfig, coauthors, publicationsPage, list) ==
  [pub |-> pub, pubConfig |-> pubConfig, coauthors |-> coauthors,
   publicationsPage |-> publicationsPage, list |-> list]
NothingGiven == Given(EmptyObj, NoPubConfig, EmptyObj, FALSE, <<>>)

\* the function called last and what it made
Made(op, val) == [op |-> op, val |-> val]
NothingMade == Made("none", <<>>)

\* formatAuthorsWithLinks ------------------------------------------------

\* the first position from i on at which sep occurs in s, 0 when there is none
IndexFrom(s, sep, i) ==
  Min({ k \in i..(Len(s) - Len(sep) + 1) : SubSeq(s, k, k + Len(sep) - 1) = sep }
      \cup {Len(s) + 1})
  % (Len(s) + 1)

\* s.split(sep), for a separator that is not empty, from position i on
RECURSIVE SplitFrom(_, _, _)
SplitAt(s, sep, i, k) ==
  IF k = 0 THEN << Between(s, i, Len(s)) >>
  ELSE << Between(s, i, k - 1) >> \o SplitFrom(s, sep, k + Len(sep))
SplitFrom(s, sep, i) == SplitAt(s, sep, i, IndexFrom(s, sep, i))
split(s, sep) == SplitFrom(s, sep, 1)

\* list.join(sep)
RECURSIVE join(_, _)
join(list, sep) ==
  IF list = <<>> THEN <<>>
  ELSE IF Len(list) = 1 THEN list[1]
  ELSE list[1] \o sep \o join(Tail(list), sep)

sAnd == <<" ","a","n","d"," ">>
sCommaSpace == <<","," ">>

\* the character U+2709 (an envelope), written as one element
Envelope == "U+2709"

\* coauthorsData?.coauthors?.[name]: the record of the name, or undefined
CoauthorInfo(website, affiliation) == [website |-> website, affiliation |-> affiliation]
NoCoauthorInfo == CoauthorInfo(Null, Null)
InfoOf(coauthors, name) ==
  IF Has(coauthors, name) THEN coauthors[name] ELSE NoCoauthorInfo

\* `<strong>${trimmedAuthor}</strong>` for the one name, the name otherwise
Strong(name) ==
  IF name = sChaofengChen THEN <<"<","s","t","r","o","n","g",">">> \o name \o <<"<","/","s","t","r","o","n","g",">">> ELSE name

\* += '<sup>*</sup>' and += '<sup>(envelope)</sup>'
WithMarkers(formatted, name, coFirstAuthors, correspondingAuthors) ==
  formatted
  \o (IF InSeq(name, coFirstAuthors) THEN <<"<","s","u","p",">","*","<","/","s","u","p",">">> ELSE <<>>)
  \o (IF InSeq(name, correspondingAuthors)
      THEN <<"<","s","u","p",">">> \o <<Envelope>> \o <<"<","/","s","u","p",">">> ELSE <<>>)

\* the link around the formatted name when the coauthor has a website
WithLink(formatted, info) ==
  IF IsTruthy(info.website)
  THEN <<"<","a"," ","h","r","e","f","=","\"">> \o info.website.val \o <<"\""," ","t","a","r","g","e","t","=","\"","_","b","l","a","n","k","\""," ","t","i","t","l","e","=","\"">>
       \o OrElse(info.affiliation, <<>>) \o <<"\"",">">> \o formatted \o <<"<","/","a",">">>
  ELSE formatted

\* (a faulty variant, for comparison: the link takes the place of the other
\* decorations)
FormatAuthorLinkFirst(name, pubConfig, coauthors) ==
  IF IsTruthy(InfoOf(coauthors, name).website)
  THEN WithLink(name, InfoOf(coauthors, name))
  ELSE WithMarkers(Strong(name), name, pubConfig.co_first_authors,
                   pubConfig.corresponding_authors)

\* the callback of authorList.map, for the trimmed name
FormatAuthor(name, pubConfig, coauthors) ==
  WithLink(WithMarkers(Strong(name), name, pubConfig.co_first_authors,
                       pubConfig.corresponding_authors),
           InfoOf(coauthors, name))

formatAuthorsWithLinks(authors, pubConfig, coauthors) ==
  LET authorList == split(authors, sAnd)
  IN join([k \in 1..Len(authorList) |->
             FormatAuthor(trim(authorList[k]), pubConfig, coauthors)] \o <<>>,
          sCommaSpace)

\* s.includes(part): text has part as a substring
Contains(text, part) ==
  \E k \in 0..(Len(text) - Len(part)) : SubSeq(text, k + 1, k + Len(part)) = part

\* createPublicationElement -----------------------------------------------

\* a || b || ... for a list of values: the first truthy one, else the last
RECURSIVE OrChain(_)
OrChain(values) ==
  IF Len(values) = 1 \/ IsTruthy(Head(values)) THEN Head(values)
  ELSE OrChain(Tail(values))

\* text.replace(/\(([^)]+)\)/g, '(<strong>$1</strong>)') from position i on:
\* a ( followed by one or more characters other than ) and then a )
IsCloseParen(c) == c = ")"
RECURSIVE BoldFrom(_, _)
BoldAt(text, i, close) ==
  IF text[i] = "(" /\ close > i + 1 /\ close <= Len(text)
  THEN <<"(","<","s","t","r","o","n","g",">">> \o SubSeq(text, i + 1, close - 1) \o <<"<","/","s","t","r","o","n","g",">",")">> \o BoldFrom(text, close + 1)
  ELSE <<text[i]>> \o BoldFrom(text, i + 1)
BoldFrom(text, i) ==
  IF i > Len(text) THEN <<>> ELSE BoldAt(text, i, First(text, i + 1, IsCloseParen))

\* boldAbbreviations(text), for a string or undefined
boldAbbreviations(text) == IF IsTruthy(text) THEN BoldFrom(text.val, 1) ELSE <<>>

\* const acceptInfo
acceptInfo(pubConfig) ==
  IF IsTruthy(pubConfig.accept_info)
  THEN <<"(","<","s","p","a","n"," ","c","l","a","s","s","=","\"","a","c","c","e","p","t","-","i","n","f","o","\"",">">> \o pubConfig.accept_info.val \o <<"<","/","s","p","a","n",">",")">>
  ELSE <<>>

\* (a faulty variant, for comparison: the journal field for every type)
JournalField(type) == sJournal

\* the field the venue is taken from, by the type of the entry
VenueField(type) ==
  IF type = sArticle THEN sJournal
  ELSE IF type \in {sInproceedings, sConference} THEN sBooktitle
  ELSE sPublisher

\* let venueCore
venueCore(pub, pubConfig) ==
  IF IsTruthy(pubConfig.venue) THEN boldAbbreviations(pubConfig.venue)
  ELSE boldAbbreviations(Str(OrElse(Read(pub, VenueField(pub[TypeProp])), <<>>)))

\* const venueHtml
VenueHtmlOf(core, year, accept) ==
  core \o <<",", " ">> \o year \o (IF accept # <<>> THEN <<" ">> \o accept ELSE <<>>)
venueHtml(pub, pubConfig) ==
  VenueHtmlOf(venueCore(pub, pubConfig), OrElse(Read(pub, YearProp), <<>>),
              acceptInfo(pubConfig))

\* (a faulty variant, for comparison: the url of the entry before config.pdf)
PdfCandidatesEntryFirst(pub, pubConfig) ==
  << Read(pub, sUrl), pubConfig.pdf, Read(pub, sPdf) >>

\* pubConfig.pdf || pub.url || pub.pdf
PdfCandidates(pub, pubConfig) ==
  << pubConfig.pdf, Read(pub, sUrl), Read(pub, sPdf) >>

\* pubConfig.github || pub.github || pubConfig.code || pub.code
CodeCandidates(pub, pubConfig) ==
  << pubConfig.github, Read(pub, sGithub), pubConfig.code, Read(pub, sCode) >>

\* a link: its label, its href, and the data-key of a Cite link or the
\* repository path of a stars badge
Link(label, href, extra) == [label |-> label, href |-> href, extra |-> extra]

sHash == <<"#">>
sDoiOrg == <<"h","t","t","p","s",":","/","/","d","o","i",".","o","r","g","/">>

PdfLinks(url) ==
  IF IsTruthy(url) THEN << Link("PDF", OrElse(url, sHash), <<>>) >> ELSE <<>>
DoiLinks(doi) ==
  IF IsTruthy(doi) THEN << Link("DOI", sDoiOrg \o doi.val, <<>>) >> ELSE <<>>

\* the links of the publications page, written into the venue line
GitHubLinks(codeUrl) ==
  IF IsTruthy(codeUrl) THEN << Link("GitHub", codeUrl.val, <<>>) >> ELSE <<>>
inlineLinks(pub, pubConfig) ==
  PdfLinks(OrChain(PdfCandidates(pub, pubConfig)))
  \o GitHubLinks(OrChain(CodeCandidates(pub, pubConfig)))
  \o DoiLinks(Read(pub, sDoi))
  \o << Link("Cite", sHash, DataKey(pub)) >>

\* the inline link as it is written
InlineHtml(link) ==
  IF link.label = "Cite"
  THEN <<"<","a"," ","h","r","e","f","=","\"","#","\""," ","c","l","a","s","s","=","\"","c","i","t","e","-","l","i","n","k","\""," ","d","a","t","a","-","k","e","y","=","\"">> \o link.extra \o <<"\"",">","C","i","t","e","<","/","a",">">>
  ELSE <<"<","a"," ","h","r","e","f","=","\"">> \o link.href \o <<"\""," ","t","a","r","g","e","t","=","\"","_","b","l","a","n","k","\"",">">>
       \o (IF link.label = "PDF" THEN <<"P","D","F">>
           ELSE IF link.label = "GitHub" THEN <<"G","i","t","H","u","b">> ELSE <<"D","O","I">>)
       \o <<"<","/","a",">">>
sBar == <<" ","|"," ">>
InlineVenue(venue, links) ==
  venue \o sBar \o join([k \in 1..Len(links) |-> InlineHtml(links[k])] \o <<>>, sBar)

\* s.replace(pattern, ''): the first occurrence of the pattern is removed
RemoveAt(s, pattern, k) ==
  IF k = 0 THEN s
  ELSE Between(s, 1, k - 1) \o Between(s, k + Len(pattern), Len(s))
RemoveFirst(s, pattern) == RemoveAt(s, pattern, IndexFrom(s, pattern, 1))

sGithubCom == <<"g","i","t","h","u","b",".","c","o","m">>
sHttpsGithub == <<"h","t","t","p","s",":","/","/","g","i","t","h","u","b",".","c","o","m","/">>
sHttpGithub == <<"h","t","t","p",":","/","/","g","i","t","h","u","b",".","c","o","m","/">>
sSlash == <<"/">>

\* githubUrl.split('/').slice(0, 2).join('/')
FirstTwo(parts) == join(SubSeq(parts, 1, Min({2, Len(parts)})), sSlash)
RepoPath(codeUrl) ==
  FirstTwo(split(RemoveFirst(RemoveFirst(codeUrl, sHttpsGithub), sHttpGithub), sSlash))

\* the code link of the index page: a stars badge, for a URL with github.com
\* in it and a repository path with a slash, and nothing otherwise
StarsFor(codeUrl, repoPath) ==
  IF Contains(repoPath, sSlash) THEN << Link("stars", codeUrl, repoPath) >> ELSE <<>>
StarsLinks(codeUrl) ==
  IF IsTruthy(codeUrl) /\ Contains(codeUrl.val, sGithubCom)
  THEN StarsFor(codeUrl.val, RepoPath(codeUrl.val))
  ELSE <<>>

\* the links of the div publication-links, where the body has not the class
\* publications-page
PublicationLinks(pub, pubConfig) ==
  PdfLinks(OrChain(PdfCandidates(pub, pubConfig)))
  \o StarsLinks(OrChain(CodeCandidates(pub, pubConfig)))
  \o DoiLinks(Read(pub, sDoi))
  \o << Link("Cite", sHash, <<>>) >>

sUntitled == <<"U","n","t","i","t","l","e","d">>

\* the publication item: the text of its title, the HTML of its authors (if
\* any) and of its venue line, and its links. The image of the index page
\* and the class publication-highlighted are left out.
Element(title, authors, venueText, venue, links) ==
  [title |-> title, authors |-> authors, venueHtml |-> venueText,
   venue |-> venue, links |-> links]
ElementWith(pub, pubConfig, coauthors, publicationsPage, venueText, links) ==
  Element(OrElse(Read(pub, sTitleProp), sUntitled),
          IF IsTruthy(Read(pub, sAuthor))
          THEN Str(formatAuthorsWithLinks(pub[sAuthor], pubConfig, coauthors))
          ELSE Null,
          venueText,
          IF publicationsPage THEN InlineVenue(venueText, links) ELSE venueText,
          links)
createPublicationElement(pub, pubConfig, coauthors, publicationsPage) ==
  ElementWith(pub, pubConfig, coauthors, publicationsPage,
              venueHtml(pub, pubConfig),
              IF publicationsPage THEN inlineLinks(pub, pubConfig)
              ELSE PublicationLinks(pub, pubConfig))

\* the citation container of a publication item: whether it is in the
\* item, has the class expanded, has an animation-frame callback pending
\* that adds the class, how many of its removal timers are pending, and the
\* publication its text was made from
Citation(shown, expanded, expanding, timers, of) ==
  [shown |-> shown, expanded |-> expanded, expanding |-> expanding,
   timers |-> timers, of |-> of]
NoCitation == Citation(FALSE, FALSE, FALSE, 0, EmptyObj)

\* the publication items of the container, in document order
RECURSIVE ItemsIn(_)
ItemsIn(sections) ==
  IF sections = <<>> THEN <<>> ELSE Head(sections).items \o ItemsIn(Tail(sections))
NoCitations(shown) == [k \in 1..Len(ItemsIn(shown.items)) |-> NoCitation] \o <<>>

\* ------------------------------------------------------------------------
\* The parser as a state machine: one BibtexParser object and its callers

VARIABLES
  src,      \* the piece numbers of the text last given to parse
  bibtex,   \* the text last given to parse
  entries,  \* this.entries
  errors,   \* this.errors
  lastOp,   \* the last method called
  arg,      \* its argument
  ret,      \* what it gave
  held      \* whether this.entries was non-empty when it was called

\* the publications page
VARIABLES
  bibData,              \* localStorage.getItem('bibData')
  pc,                   \* where init() is: closed (no page), coauthors, config,
                        \* fetch, body (the awaits), done
  coauthorsData,        \* null, loaded or empty
  publicationConfig,    \* null, loaded or empty
  savedBibData,         \* the constant of init()
  currentPublications,
  currentFilter,
  frames,               \* the pending requestAnimationFrame callbacks
  view,                 \* publicationsContainer.innerHTML
  fetched,              \* how the fetch of data/publications.bib went for init
  initContent,          \* the text init() gave to processBibContent
  lastLoaded,           \* the text of the last fetch with an OK response or upload
  initCalls,            \* coauthorsData, publicationConfig and the container
                        \* as they were at each call of processBibContent
                        \* made by init()
  requestedLast,        \* the load started last: by init or by an upload
  completedLast,        \* the load whose text was processed last
  cites                 \* the citation container of each publication item

\* the rendering functions
VARIABLES
  given,                \* the publication and the data a function is given
  made                  \* the function called last, and what it made

renderVars == <<given, made>>

pageVars == <<bibData, pc, coauthorsData, publicationConfig, savedBibData,
              currentPublications, currentFilter, frames, view, fetched,
              initContent, lastLoaded, initCalls, requestedLast,
              completedLast, cites>>

\* a load of a bibliography text, by init() or by the upload handler
Load(by, text) == [by |-> by, text |-> text]
NoLoad == Load("none", <<>>)

\* the gallery page
VARIABLES
  galleryPc,            \* where init() of the GalleryManager is: closed (no
                        \* page), loading (the await), ready, failed
  manager,              \* the fields of the GalleryManager
  filters,              \* the values of the three filter selects
  cards,                \* the gallery items of the container, in order
  pointer,              \* the card the mouse is over, 0 for none
  leaked,               \* the live interval timers of carousels whose cards
                        \* were removed from the container
  modal,                \* lightboxModal.style.display
  boxTimers,            \* the live interval timers set by startAutoPlay
  event                 \* the handler or timer callback that ran last

galleryVars == <<galleryPc, manager, filters, cards, pointer, leaked, modal,
                 boxTimers, event>>

\* the projects page
VARIABLES
  projectsPc,           \* where init() of the ProjectsManager is: closed,
                        \* loading (await loadProjects), stars (the star
                        \* counts are being loaded), ready, failed
  projectsManager,      \* the fields of the ProjectsManager
  projectsContainer,    \* what the projects container shows
  calls,                \* the calls of getGitHubStars awaiting a response
  now,                  \* Date.now()
  starsRet              \* the call of getGitHubStars that settled last

projectVars == <<projectsPc, projectsManager, projectsContainer, calls, now,
                 starsRet>>

siteVars == <<galleryVars, projectVars>>

vars == <<src, bibtex, entries, errors, lastOp, arg, ret, held, pageVars,
          renderVars, siteVars>>

\* no page is open, nothing is stored
NoPage ==
  /\ bibData = Null
  /\ pc = "closed"
  /\ coauthorsData = "null"
  /\ publicationConfig = "null"
  /\ savedBibData = Null
  /\ currentPublications = <<>>
  /\ currentFilter = sAll
  /\ frames = <<>>
  /\ view = Showing("empty", <<>>)
  /\ fetched = [how |-> "pending", text |-> <<>>]
  /\ initContent = Null
  /\ lastLoaded = Null
  /\ initCalls = <<>>
  /\ requestedLast = NoLoad
  /\ completedLast = NoLoad
  /\ cites = <<>>

\* an album of gallery.json: its images.length, year and tags
Album(id, n, year, tags) == [id |-> id, n |-> n, year |-> year, tags |-> tags]

GalleryItems ==
  << Album(1, 3, "2024", {"t"}),
     Album(2, 1, "2023", {"u"}),
     Album(3, 2, "2024", {"t", "u"}) >>

\* gallery.json: the albums, and whether it has a config object
GalleryFiles ==
  { [gallery |-> GalleryItems, config |-> c] : c \in {"object", "undefined"} }

AllFilters == [category |-> "all", year |-> "all", tag |-> "all"]

\* constructor of GalleryManager, before init()
NewManager ==
  [galleryData |-> <<>>, filteredData |-> <<>>, currentLightboxItem |-> 0,
   currentImageIndex |-> 0, autoPlayInterval |-> FALSE,
   isAutoPlaying |-> FALSE, config |-> "undefined"]

Event(op, card, from) == [op |-> op, card |-> card, from |-> from]

\* the gallery page is not open
NoGallery ==
  /\ galleryPc = "closed"
  /\ manager = NewManager
  /\ filters = AllFilters
  /\ cards = <<>>
  /\ pointer = 0
  /\ leaked = 0
  /\ modal = "none"
  /\ boxTimers = 0
  /\ event = Event("none", 0, 0)

\* values of JavaScript: a number, undefined, or an inherited function
Number(n) == [kind |-> "number", n |-> n]
NotDefined == [kind |-> "undefined", n |-> 0]
Inherited == [kind |-> "function", n |-> 0]

\* the repositories the model asks about; NoRepo is a project without
\* github_repo
NoRepo == ""
Repos == {"chaofengc/FeMaSR", "x/y", "constructor"}

\* an entry of githubStarsCache, and the absent entry
Cached(stars, timestamp) == [has |-> TRUE, stars |-> stars, timestamp |-> timestamp]
NotCached == [has |-> FALSE, stars |-> 0, timestamp |-> 0]

\* constructor of ProjectsManager, before init()
NewProjectsManager ==
  [projects |-> <<>>, allTags |-> {}, currentFilter |-> "all",
   githubStarsCache |-> [r \in Repos |-> NotCached]]

Container(kind, shown) == [kind |-> kind, cards |-> shown]

\* no response was needed
NoOutcome == [kind |-> "none", count |-> NotDefined, status |-> 0]

NoCall == [repo |-> NoRepo, outcome |-> NoOutcome, hit |-> FALSE,
           cached |-> NotCached, at |-> 0, how |-> "none",
           value |-> NotDefined, wrote |-> FALSE]

\* the projects page is not open
NoProjects ==
  /\ projectsPc = "closed"
  /\ projectsManager = NewProjectsManager
  /\ projectsContainer = Container("none", <<>>)
  /\ calls = <<>>
  /\ now = 0
  /\ starsRet = NoCall

NoSite == NoGallery /\ NoProjects

\* new BibtexParser()
Init ==
  /\ src = <<>>
  /\ bibtex = <<>>
  /\ entries = <<>>
  /\ errors = <<>>
  /\ lastOp = "new"
  /\ arg = <<>>
  /\ ret = Returned(<<>>)
  /\ held = FALSE
  /\ NoPage
  /\ given = NothingGiven
  /\ made = NothingMade
  /\ NoSite

This == [entries |-> entries, errors |-> errors]

\* parse(text) leaves the parser in state st and returns its entries
Parsed(ids, text, st) ==
  /\ src' = ids
  /\ bibtex' = text
  /\ entries' = st.entries
  /\ errors' = st.errors
  /\ lastOp' = "parse"
  /\ arg' = text
  /\ ret' = Returned(st.entries)
  /\ held' = (entries # <<>>)
  /\ UNCHANGED <<pageVars, renderVars, siteVars>>

Parse(ids) == Parsed(ids, TextOf[ids], parseWith(This, PushedOf[ids]))

SortByYear ==
  /\ \E sorted \in SortOutcomes(entries) :
       /\ entries' = sorted
       /\ ret' = Returned(sorted)
  /\ lastOp' = "sortByYear"
  /\ arg' = <<>>
  /\ held' = (entries # <<>>)
  /\ UNCHANGED <<src, bibtex, errors, pageVars, renderVars, siteVars>>

FilterByType(type) ==
  /\ ret' = filterByType(entries, type)
  /\ lastOp' = "filterByType"
  /\ arg' = type
  /\ held' = (entries # <<>>)
  /\ UNCHANGED <<src, bibtex, entries, errors, pageVars, renderVars, siteVars>>

Next ==
  \/ \E ids \in PieceLists : Parse(ids)
  \/ SortByYear
  \/ \E type \in FilterArgs : FilterByType(type)

Spec == Init /\ [][Next]_vars

\* ------------------------------------------------------------------------
\* What the contract of parse promises for a text written from blocks

\* constructor(): the state of a new parser
NewParser == [entries |-> <<>>, errors |-> <<>>]

\* a value free of braces, quotes, '@', '%' and newlines
PlainValue(value) ==
  \A i \in 1..Len(value) : value[i] \notin {"{", "}", "\"", "@", "%", "\n"}
PlainFields(fields) == \A k \in 1..Len(fields) : PlainValue(fields[k].value)
DelimitedPiece(id) == PieceSeq[id].kind = "block" /\ PieceSeq[id].comma
WellFormedPiece(id) == DelimitedPiece(id) /\ PlainFields(PieceSeq[id].fields)
WellFormed(ids) == \A i \in 1..Len(ids) : WellFormedPiece(ids[i])
AcceptedPiece(id) == toLowerCase(PieceSeq[id].type) \in AcceptedTypes
FieldNames(b) == { b.fields[k].name : k \in 1..Len(b.fields) }
NoAt(text) == \A i \in 1..Len(text) : text[i] # "@"

\* entry e has the trimmed key of block b, each field of b under its
\* lower-cased name with its trimmed value, and no other property
FieldsAsPromised(e, b) ==
  /\ DOMAIN e = {TypeProp, CiteKeyProp} \cup { toLowerCase(n) : n \in FieldNames(b) }
  /\ e[CiteKeyProp] = trim(b.key)
  /\ \A k \in 1..Len(b.fields) : e[toLowerCase(b.fields[k].name)] = trim(b.fields[k].value)

EntryAsPromised(e, b) ==
  /\ FieldsAsPromised(e, b)
  /\ e[TypeProp] = toLowerCase(b.type)

\* list holds one entry per piece number of ids, in order, each Promised
OnePerBlock(list, ids, Promised(_, _)) ==
  /\ Len(list) = Len(ids)
  /\ \A i \in 1..Len(ids) : Promised(list[i], PieceSeq[ids[i]])

\* C1 (as claimed): for a text of well-formed blocks whose field names are
\* other than 'type' and 'citeKey', parse returns exactly one entry per block
\* of accepted type, in input order, with the type lower-cased, the cite key
\* trimmed and each field under its lower-cased name with its trimmed value.
C1_AsClaimed ==
  ( /\ lastOp = "parse"
    /\ WellFormed(src)
    /\ \A i \in 1..Len(src) : FieldNames(PieceSeq[src[i]]) \cap {TypeProp, CiteKeyProp} = {} )
  => /\ ret = Returned(entries)
     /\ OnePerBlock(entries, SelectSeq(src, AcceptedPiece), EntryAsPromised)

\* C2 (as claimed): every entry held has a type of the accepted set, and a
\* block of another type produces no entry and no error message.
C2_AsClaimed ==
  /\ \A i \in 1..Len(entries) : entries[i][TypeProp] \in AcceptedTypes
  /\ (lastOp = "parse" /\ WellFormed(src))
       => (Len(entries) = Len(SelectSeq(src, AcceptedPiece)) /\ errors = <<>>)

\* the text is made of blocks, exactly one of which lacks the comma after its key
OneMalformed(ids) ==
  /\ \A i \in 1..Len(ids) : PieceSeq[ids[i]].kind = "block"
  /\ Cardinality({ i \in 1..Len(ids) : ~PieceSeq[ids[i]].comma }) = 1

\* C3 (as claimed): a block with no comma after its key is skipped with one
\* message appended to the error list, and every other block of the text is
\* still parsed into its own entry.
C3_AsClaimed ==
  (lastOp = "parse" /\ OneMalformed(src))
  => /\ Len(errors) = 1
     /\ LET good(id) == WellFormedPiece(id) /\ AcceptedPiece(id)
        IN OnePerBlock(entries, SelectSeq(src, good), FieldsAsPromised)

\* C4: after any call of parse, whatever was called before it, the parser
\* holds the entries and errors a new parser holds after parse of that text.
C4_ParseDiscardsPriorState ==
  lastOp = "parse" =>
    /\ bibtex = TextOf[src]
    /\ This = parseWith(NewParser, PushedOf[src])
    /\ ret = Returned(parseWith(NewParser, PushedOf[src]).entries)

\* a parse of a text with entries on a parser that held entries already
C4_Witness ==
  lastOp = "parse" /\ held /\ entries # <<>>

\* C5: for a text with no @ in it, parse returns an empty sequence and leaves
\* the entries and the error list empty.
C5_NoBlocksNoEntries ==
  (lastOp = "parse" /\ NoAt(bibtex))
  => (ret = Returned(<<>>) /\ entries = <<>> /\ errors = <<>>)

\* a non-empty text without @ parsed on a parser that held entries
C5_Witness ==
  lastOp = "parse" /\ NoAt(bibtex) /\ bibtex # <<>> /\ held

\* sortByYear, as C6 describes it, took the list old to the list new
Parsable(e) == Has(e, YearProp) /\ ~parseInt(e[YearProp]).nan
SameYear(a, b) ==
  IF Has(a, YearProp) /\ Has(b, YearProp) THEN a[YearProp] = b[YearProp]
  ELSE ~Has(a, YearProp) /\ ~Has(b, YearProp)
SortedAsClaimed(old, new) ==
  /\ Len(new) = Len(old)
  /\ \E p \in Permutations(1..Len(old)) :
       /\ \A i \in 1..Len(old) : new[i] = old[p[i]]
       /\ \A i, j \in 1..Len(old) : (i < j /\ SameYear(new[i], new[j])) => p[i] < p[j]
  /\ \A i, j \in 1..Len(new) :
       (i < j /\ Parsable(new[i]) /\ Parsable(new[j]))
         => parseInt(new[i][YearProp]).val >= parseInt(new[j][YearProp]).val
  /\ \A i, j \in 1..Len(new) : i < j => ~(~Parsable(new[i]) /\ Parsable(new[j]))

\* C6 (as claimed): sortByYear reorders the held list into a permutation of
\* itself sorted by numeric year descending, keeps the order of entries that
\* share a year, places every entry whose year is missing or not a number
\* after all entries with a parsable year, and returns the held list.
C6_AsClaimed ==
  [][ lastOp' = "sortByYear"
        => (SortedAsClaimed(entries, entries') /\ ret' = Returned(entries')) ]_vars

\* the type set C7 gives a coarse category
HasType(e, c) ==
  IF c = sAll THEN TRUE
  ELSE IF c = sJournal THEN e[TypeProp] \in {sArticle}
  ELSE IF c = sConference THEN e[TypeProp] \in {sInproceedings, sConference}
  ELSE IF c = sPreprint THEN e[TypeProp] \in {sMisc, sUnpublished}
  ELSE e[TypeProp] \in {c}

\* C7 (as claimed): filterByType(c) returns, in held order, exactly the
\* entries whose type is in the type set of c, for 'all', 'journal',
\* 'conference', 'preprint' and any other string.
C7_AsClaimed ==
  lastOp = "filterByType" =>
    LET wanted(e) == HasType(e, arg)
    IN ret = Returned(SelectSeq(entries, wanted))

\* C8: parse does not deduplicate. In a text of well-formed blocks there is
\* one entry per block of accepted type, in input order, and two blocks that
\* carry the same cite key each have their entry, with their own fields.
C8_DuplicatesKept ==
  (lastOp = "parse" /\ WellFormed(src)) =>
    LET acc == SelectSeq(src, AcceptedPiece)
    IN /\ Len(entries) = Len(acc)
       /\ \A i, j \in 1..Len(acc) :
            (i < j /\ trim(PieceSeq[acc[i]].key) = trim(PieceSeq[acc[j]].key))
              => /\ FieldsAsPromised(entries[i], PieceSeq[acc[i]])
                 /\ FieldsAsPromised(entries[j], PieceSeq[acc[j]])

\* two blocks of one cite key and different fields, both held
C8_Witness ==
  /\ lastOp = "parse"
  /\ Len(entries) = 2
  /\ entries[1][CiteKeyProp] = entries[2][CiteKeyProp]
  /\ entries[1] # entries[2]

\* ------------------------------------------------------------------------
\* The publications page as a state machine: the DOMContentLoaded handler,
\* init() with its awaits, the upload and filter handlers and the pending
\* animation-frame callbacks. localStorage outlives the page.

trace == <<src, bibtex, lastOp, arg, ret, held>>

\* renderPublications(publications, filter) on the publications page:
\* the callback is queued, nothing is drawn yet
renderPublications(queue, publications, filter) ==
  Append(queue, [publications |-> publications, filter |-> filter])

\* processBibContent(content): parse, sort, queue the render, store the text
\* (parse leaves the parser in state st)
AfterParse(content, st) ==
  /\ \E sorted \in SortOutcomes(st.entries) :
       /\ entries' = sorted
       /\ currentPublications' = sorted
       /\ frames' = renderPublications(frames, sorted, currentFilter)
  /\ errors' = st.errors
  /\ bibData' = Str(content)
ProcessWithin(limit, content) ==
  /\ Len(frames) < limit
  /\ AfterParse(content, parseWith(This, PagePushed(content)))
processBibContent(content) == ProcessWithin(MaxFrames, content)

\* the page is opened or reloaded: the handler makes its parser and
\* variables, and init() shows the loading state and awaits the first fetch
LoadPage ==
  /\ entries' = NewParser.entries
  /\ errors' = NewParser.errors
  /\ coauthorsData' = "null"
  /\ publicationConfig' = "null"
  /\ currentPublications' = <<>>
  /\ currentFilter' = sAll
  /\ frames' = <<>>
  /\ view' = Showing("loading", <<>>)
  /\ savedBibData' = Null
  /\ fetched' = [how |-> "pending", text |-> <<>>]
  /\ initContent' = Null
  /\ pc' = "coauthors"
  /\ initCalls' = <<>>
  /\ requestedLast' = NoLoad
  /\ completedLast' = NoLoad
  /\ cites' = <<>>
  /\ UNCHANGED <<bibData, lastLoaded, trace, renderVars, siteVars>>

\* await loadCoauthorsData() leaves data in coauthorsData. A loaded file
\* holds a JSON object.
CoauthorsBecome(data) ==
  /\ pc = "coauthors"
  /\ coauthorsData' = data
  /\ pc' = "config"
  /\ UNCHANGED <<entries, errors, bibData, publicationConfig, savedBibData,
                 currentPublications, currentFilter, frames, view, fetched,
                 initContent, lastLoaded, initCalls, requestedLast,
                 completedLast, cites, trace, renderVars, siteVars>>

\* (a faulty variant, for comparison: a failure leaves coauthorsData as it was)
CoauthorsDoneNoDefault(ok) == CoauthorsBecome(IF ok THEN "loaded" ELSE "null")

\* loadCoauthorsData(): loaded, or the empty default { coauthors: {} } on any
\* failure (the fetch is rejected, the response is not OK, the body is no JSON)
CoauthorsDone(ok) == CoauthorsBecome(IF ok THEN "loaded" ELSE "empty")

\* await loadPublicationConfig(), then init reads the stored text and
\* starts the fetch of data/publications.bib
ConfigDone(ok) ==
  /\ pc = "config"
  /\ publicationConfig' = IF ok THEN "loaded" ELSE "empty"
  /\ savedBibData' = bibData
  /\ pc' = "fetch"
  /\ requestedLast' = Load("init", <<>>)
  /\ UNCHANGED <<entries, errors, bibData, coauthorsData,
                 currentPublications, currentFilter, frames, view, fetched,
                 initContent, lastLoaded, initCalls, completedLast, cites,
                 trace, renderVars, siteVars>>

\* the call of processBibContent by init() is on record
InitCalled(content) ==
  /\ initContent' = Str(content)
  /\ initCalls' = Append(initCalls, [coauthors |-> coauthorsData,
                                     config |-> publicationConfig,
                                     over |-> view])
  /\ completedLast' = Load("init", content)
  /\ UNCHANGED <<requestedLast, cites>>

\* (a faulty variant, for comparison: init() drops its text when a file was
\* uploaded since it started)
InitProcessesUnlessUploaded(content) ==
  /\ Len(frames) < MaxFrames
  /\ IF requestedLast.by = "upload"
     THEN UNCHANGED <<entries, currentPublications, frames, errors, bibData>>
     ELSE processBibContent(content)
  /\ InitCalled(content)

\* init() calls processBibContent(content)
InitProcesses(content) ==
  /\ processBibContent(content)
  /\ InitCalled(content)

\* the catch block of init: the stored text or the built-in dataset
FallbackTo(how, bibDataText) ==
  /\ InitProcesses(bibDataText)
  /\ fetched' = [how |-> how, text |-> <<>>]
  /\ pc' = "done"
  /\ UNCHANGED <<coauthorsData, publicationConfig, savedBibData,
                 currentFilter, view, lastLoaded, trace, renderVars, siteVars>>
Fallback(how) == FallbackTo(how, OrElse(savedBibData, defaultBibData))

\* the fetch settles with an OK response: init awaits the body
FetchOk ==
  /\ pc = "fetch"
  /\ pc' = "body"
  /\ UNCHANGED <<entries, errors, bibData, coauthorsData, publicationConfig,
                 savedBibData, currentPublications, currentFilter, frames,
                 view, fetched, initContent, lastLoaded, initCalls,
                 requestedLast, completedLast, cites, trace, renderVars, siteVars>>

\* the fetch is rejected (network error) or its response is not OK
FetchFailed(how) ==
  /\ pc = "fetch"
  /\ Fallback(how)

\* response.text() gives the text of the file
BodyRead(text) ==
  /\ pc = "body"
  /\ InitProcesses(text)
  /\ fetched' = [how |-> "ok", text |-> text]
  /\ lastLoaded' = Str(text)
  /\ pc' = "done"
  /\ UNCHANGED <<coauthorsData, publicationConfig, savedBibData,
                 currentFilter, view, trace, renderVars, siteVars>>

\* response.text() is rejected: the connection broke while the body was read
BodyFailed ==
  /\ pc = "body"
  /\ Fallback("network error")

\* reader.onload of the upload handler, with the text of the chosen file
UploadWithin(limit, text) ==
  /\ pc # "closed"
  /\ ProcessWithin(limit, text)
  /\ lastLoaded' = Str(text)
  /\ requestedLast' = Load("upload", text)
  /\ completedLast' = Load("upload", text)
  /\ UNCHANGED <<pc, coauthorsData, publicationConfig, savedBibData,
                 currentFilter, view, fetched, initContent, initCalls, cites,
                 trace, renderVars, siteVars>>
Upload(text) == UploadWithin(MaxFrames, text)

\* a click on a filter button
ClickFilterWithin(limit, filter) ==
  /\ pc # "closed"
  /\ Len(frames) < limit
  /\ currentFilter' = filter
  /\ frames' = renderPublications(frames, currentPublications, filter)
  /\ UNCHANGED <<entries, errors, bibData, pc, coauthorsData,
                 publicationConfig, savedBibData, currentPublications, view,
                 fetched, initContent, lastLoaded, initCalls, requestedLast,
                 completedLast, cites, trace, renderVars, siteVars>>
ClickFilter(filter) == ClickFilterWithin(MaxFrames, filter)

\* what the callback of renderPublications leaves in the container: nothing
\* when it threw after clearing it, the message, or the year sections
DrawnGroups(grouped) ==
  IF grouped.threw THEN { Showing("empty", <<>>) }
  ELSE { Showing("list", SectionsIn(grouped.val, years)) :
           years \in SortedYears(ObjectKeys(grouped.val)) }
DrawnFrom(filtered) ==
  IF filtered.threw THEN { Showing("empty", <<>>) }
  ELSE IF Len(filtered.val) = 0 THEN { Showing("none found", <<>>) }
  ELSE DrawnGroups(GroupByYear(filtered.val))
Drawn(publications, filter, heldEntries) ==
  DrawnFrom(IF filter # sAll THEN filterByType(heldEntries, filter)
            ELSE Returned(publications))

\* the pending callbacks of renderPublications run in the order of their
\* requests, each on what the one before left in the container
RECURSIVE AfterCallbacks(_, _, _)
AfterCallbacks(queue, heldEntries, shown) ==
  IF queue = <<>> THEN {shown}
  ELSE UNION { AfterCallbacks(Tail(queue), heldEntries, drawn) :
                 drawn \in Drawn(Head(queue).publications, Head(queue).filter,
                                 heldEntries) }

\* the callback of expandCitation adds the class expanded
AfterExpand(c) ==
  IF c.expanding THEN Citation(c.shown, TRUE, FALSE, c.timers, c.of) ELSE c

\* an animation frame runs every pending callback. A callback of
\* renderPublications clears the container, and the citation containers of
\* the items that were in it with it.
RunFrame ==
  /\ frames # <<>> \/ \E i \in 1..Len(cites) : cites[i].expanding
  /\ IF frames # <<>>
     THEN \E shown \in AfterCallbacks(frames, entries, view) :
            /\ view' = shown
            /\ cites' = NoCitations(shown)
     ELSE /\ view' = view
          /\ cites' = [i \in 1..Len(cites) |-> AfterExpand(cites[i])] \o <<>>
  /\ frames' = <<>>
  /\ UNCHANGED <<entries, errors, bibData, pc, coauthorsData,
                 publicationConfig, savedBibData, currentPublications,
                 currentFilter, fetched, initContent, lastLoaded, initCalls,
                 requestedLast, completedLast, trace, renderVars, siteVars>>

NextPage ==
  \/ LoadPage
  \/ \E ok \in BOOLEAN : CoauthorsDone(ok)
  \/ \E ok \in BOOLEAN : ConfigDone(ok)
  \/ FetchOk
  \/ \E how \in {"network error", "not ok"} : FetchFailed(how)
  \/ \E text \in BibFiles : BodyRead(text)
  \/ BodyFailed
  \/ \E text \in BibFiles : Upload(text)
  \/ \E filter \in FilterButtons : ClickFilter(filter)
  \/ RunFrame

SpecPage == Init /\ [][NextPage]_vars

\* ------------------------------------------------------------------------
\* The citation views of the publications page: the click handler of the
\* Cite links, the buttons of a citation container, its animation-frame
\* callback and its removal timer

\* at most MaxTimers removal timers of one container are pending at a time
MaxTimers == 2

\* the files uploaded while the citation views are used: one article; one
\* inproceedings block; two blocks of one cite key; a block with an empty
\* key before an article
CiteFileIds == { <<1>>, <<3>>, <<1, 2>>, <<8, 1>> }
CiteFiles == { TextOf[ids] : ids \in CiteFileIds }

\* currentPublications.find(pub => pub.key === key || pub.id === key ||
\* pub.citeKey === key): the position of the publication, 0 for undefined
HasKey(pub, key) ==
  \/ Has(pub, sKey) /\ pub[sKey] = key
  \/ Has(pub, sId) /\ pub[sId] = key
  \/ pub[CiteKeyProp] = key
FindPublication(publications, key) ==
  Min({ k \in 1..Len(publications) : HasKey(publications[k], key) } \cup {Len(publications) + 1})
  % (Len(publications) + 1)

\* collapseCitation(container): the class goes at once, the container when
\* the timer fires
collapseCitation(c) == Citation(c.shown, FALSE, c.expanding, c.timers + 1, c.of)

\* expandCitation(container, ...): the class comes with the next frame
expandCitation(c) == Citation(c.shown, c.expanded, TRUE, c.timers, c.of)

\* showBibtex(publication, publicationElement) on an item whose citation
\* container is c: an expanded one is collapsed; otherwise a container that
\* is there is removed, and a new one is appended and expanded
showBibtex(c, publication) ==
  IF c.shown /\ c.expanded THEN collapseCitation(c)
  ELSE expandCitation(Citation(TRUE, FALSE, FALSE, 0, publication))

\* the click handler of the document, for the Cite link of item i
CiteClicked(c, found, publications) ==
  IF found = 0 THEN c
  ELSE IF c.shown /\ c.expanded THEN collapseCitation(c)
  ELSE showBibtex(c, publications[found])
AfterCiteClick(i) ==
  CiteClicked(cites[i],
              FindPublication(currentPublications, ItemsIn(view.items)[i].dataKey),
              currentPublications)

citeOnly == <<entries, errors, bibData, pc, coauthorsData, publicationConfig,
              savedBibData, currentPublications, currentFilter, frames, view,
              fetched, initContent, lastLoaded, initCalls, requestedLast,
              completedLast, trace, renderVars, siteVars>>

ClickCite(i) ==
  /\ AfterCiteClick(i).timers <= MaxTimers
  /\ cites' = [cites EXCEPT ![i] = AfterCiteClick(i)]
  /\ UNCHANGED citeOnly

\* toggleFunction of createCitationContainer: a click on the toggle button
\* or on the header of the container of item i
ClickToggle(i) ==
  /\ cites[i].shown
  /\ cites[i].timers < MaxTimers
  /\ cites' = [cites EXCEPT ![i] = IF @.expanded THEN collapseCitation(@)
                                   ELSE expandCitation(@)]
  /\ UNCHANGED citeOnly

\* a click on the Collapse button of the container of item i
ClickCollapse(i) ==
  /\ cites[i].shown
  /\ cites[i].timers < MaxTimers
  /\ cites' = [cites EXCEPT ![i] = collapseCitation(@)]
  /\ UNCHANGED citeOnly

\* the callback of a removal timer: the container is removed unless it has
\* the class expanded again; nothing is done to a container that is gone
TimerFired(c) ==
  IF c.shown /\ ~c.expanded THEN NoCitation
  ELSE Citation(c.shown, c.expanded, c.expanding, c.timers - 1, c.of)
Timeout(i) ==
  /\ cites[i].timers > 0
  /\ cites' = [cites EXCEPT ![i] = TimerFired(@)]
  /\ UNCHANGED citeOnly

NextCite ==
  \/ LoadPage
  \/ \E text \in CiteFiles : Upload(text)
  \/ RunFrame
  \/ \E i \in 1..Len(cites) : ClickCite(i)
  \/ \E i \in 1..Len(cites) : ClickToggle(i)
  \/ \E i \in 1..Len(cites) : ClickCollapse(i)
  \/ \E i \in 1..Len(cites) : Timeout(i)

SpecCite == Init /\ [][NextCite]_vars

\* ------------------------------------------------------------------------
\* The filter buttons and the uploads of the publications page, with up to
\* MaxQueued renderings pending between two animation frames

MaxQueued == 3

\* the files uploaded: one article; an inproceedings block before an article;
\* a misc block without a year before an article; a misc block whose year is
\* constructor
FilterFileIds == { <<1>>, <<3, 1>>, <<5, 1>>, <<12>> }
FilterFiles == { TextOf[ids] : ids \in FilterFileIds }

NextFilter ==
  \/ LoadPage
  \/ \E text \in FilterFiles : UploadWithin(MaxQueued, text)
  \/ \E filter \in FilterButtons : ClickFilterWithin(MaxQueued, filter)
  \/ RunFrame

SpecFilter == Init /\ [][NextFilter]_vars

\* ------------------------------------------------------------------------
\* The rendering functions, each applied to what is given

\* the lists given to the callback of renderPublications: up to MaxListed
\* entries, each with one of two keys and a year that is a number, is no
\* number, is the name of an inherited property, or with no year; the
\* lists are as sortByYear can leave them
MaxListed == 3
ListedYears == { <<"2","1">>, <<"2","0">>, <<"a","b">>, sConstructor }
ListedKeys == { <<"x">>, <<"y">> }
ListedPubs ==
  { MakeEntry(sMisc, key, ObjectOf(<< <<YearProp, year>> >>)) :
      key \in ListedKeys, year \in ListedYears }
  \cup { MakeEntry(sMisc, key, EmptyObj) : key \in ListedKeys }
Lists ==
  { list \in UNION { [1..n -> ListedPubs] : n \in 0..MaxListed } :
      list \in SortOutcomes(list) }

\* the configurations of a publication: author lists; links, present or
\* not, and empty ones; venue overrides and acceptance annotations
PubConfigs ==
  { PubConfig(Null, Null, Null, Null, Null, <<<<"A">>>>, <<<<"C">>>>),
    PubConfig(Null, Null, Null, Null, Null, <<<<"A">>, <<"B">>>>, <<<<"A">>>>),
    PubConfig(Null, Null, Null, Null, Null, <<sChaofengChen>>, <<sChaofengChen>>) }
  \cup { PubConfig(Null, Null, pdf, github, code, <<>>, <<>>) :
           pdf \in {Null, Str(<<"p">>)}, github \in {Null, Str(<<"g">>)},
           code \in {Null, Str(<<"o">>)} }
  \cup { PubConfig(Null, Null, Str(<<>>), Str(<<>>), Str(<<"o">>), <<>>, <<>>),
         PubConfig(Str(<<"V"," ","(","W",")">>), Null, Null, Null, Null, <<>>, <<>>),
         PubConfig(Str(<<"V">>), Str(<<"O">>), Null, Null, Null, <<>>, <<>>),
         PubConfig(Null, Str(<<"O">>), Null, Null, Null, <<>>, <<>>),
         PubConfig(Str(<<>>), Null, Null, Null, Null, <<>>, <<>>) }

\* code URLs of the index page: a repository, a repository with a longer
\* path behind http, and the bare host
sRepoUrl == <<"h","t","t","p","s",":","/","/","g","i","t","h","u","b",".","c","o","m","/","a","/","b">>
sDeepUrl == <<"h","t","t","p",":","/","/","g","i","t","h","u","b",".","c","o","m","/","a","/","b","/","c">>
GithubConfigs ==
  { PubConfig(Null, Null, Null, Str(url), Null, <<>>, <<>>) :
      url \in {sRepoUrl, sDeepUrl, sGithubCom} }

\* coauthorsData.coauthors: the empty default, and a file with a website
\* for B and for the distinguished name and an empty one for C
Coauthors ==
  { EmptyObj,
    ObjectOf(<< << <<"B">>, CoauthorInfo(Str(<<"w">>), Str(<<"f">>)) >>,
                << <<"C">>, CoauthorInfo(Str(<<>>), Str(<<"f">>)) >>,
                << sChaofengChen, CoauthorInfo(Str(<<"x">>), Null) >> >>) }

RenderInputs ==
  { Given(pub, pubConfig, coauthors, publicationsPage, <<>>) :
      pub \in Pubs, pubConfig \in PubConfigs \cup GithubConfigs,
      coauthors \in Coauthors,
      publicationsPage \in BOOLEAN }
  \cup { Given(EmptyObj, NoPubConfig, EmptyObj, TRUE, list) : list \in Lists }

InitRender ==
  /\ src = <<>>
  /\ bibtex = <<>>
  /\ entries = <<>>
  /\ errors = <<>>
  /\ lastOp = "new"
  /\ arg = <<>>
  /\ ret = Returned(<<>>)
  /\ held = FALSE
  /\ NoPage
  /\ given \in RenderInputs
  /\ made = NothingMade
  /\ NoSite

\* showBibtex(publication, ...) makes the citation text of given.pub
ShowBibtex ==
  /\ given.pub # EmptyObj
  /\ made' = Made("showBibtex", bibtexText(given.pub))
  /\ UNCHANGED <<src, bibtex, entries, errors, lastOp, arg, ret, held,
                 pageVars, given, siteVars>>

\* formatAuthorsWithLinks(pub.author, pubConfig), called for a publication
\* with an author
FormatAuthors ==
  /\ given.pub # EmptyObj
  /\ IsTruthy(Read(given.pub, sAuthor))
  /\ made' = Made("formatAuthorsWithLinks",
                  formatAuthorsWithLinks(given.pub[sAuthor], given.pubConfig,
                                         given.coauthors))
  /\ UNCHANGED <<src, bibtex, entries, errors, lastOp, arg, ret, held,
                 pageVars, given, siteVars>>

\* createPublicationElement(pub, ...) for given.pub
CreatePublicationElement ==
  /\ given.pub # EmptyObj
  /\ made' = Made("createPublicationElement",
                  createPublicationElement(given.pub, given.pubConfig,
                                           given.coauthors, given.publicationsPage))
  /\ UNCHANGED <<src, bibtex, entries, errors, lastOp, arg, ret, held,
                 pageVars, given, siteVars>>

\* the animation-frame callback of renderPublications(publications, 'all')
\* with given.list as publications
RenderCallback ==
  /\ given.pub = EmptyObj
  /\ \E shown \in Drawn(given.list, sAll, given.list) :
       made' = Made("renderPublications", shown)
  /\ UNCHANGED <<src, bibtex, entries, errors, lastOp, arg, ret, held,
                 pageVars, given, siteVars>>

NextRender ==
  \/ ShowBibtex
  \/ FormatAuthors
  \/ CreatePublicationElement
  \/ RenderCallback

SpecRender == InitRender /\ [][NextRender]_vars

\* ------------------------------------------------------------------------
\* What is promised of init() and of the stored text

\* C9 (as claimed): once init has processed a text, that text is the fetched
\* one when the fetch succeeded; when the fetch failed (network error or
\* response not OK) it is the text init read from local storage if there was
\* one, and the built-in dataset otherwise; and the publications container
\* is not empty.
C9_AsClaimed ==
  pc = "done" =>
    /\ (fetched.how = "ok") => (initContent = Str(fetched.text))
    /\ (fetched.how \in {"network error", "not ok"}) =>
         (initContent = IF savedBibData.isNull THEN Str(defaultBibData) ELSE savedBibData)
    /\ view.kind # "empty"

\* C10 (as claimed): the slot 'bibData' is absent, or holds the text of the
\* most recent successful load (a fetch with an OK response, or an upload).
C10_AsClaimed ==
  bibData.isNull \/ bibData = lastLoaded

\* C11: whatever the outcomes of the three fetches, init() goes from await to
\* await and ends; it has called processBibContent exactly once when it has
\* ended and not before; coauthorsData and publicationConfig were not null at
\* that call (each is the loaded object or its empty default); and the call
\* queued the rendering, which is pending or has run.
C11_FailedFetchesNeverBlock ==
  /\ pc \in {"closed", "coauthors", "config", "fetch", "body", "done"}
  /\ pc \in {"config", "fetch", "body", "done"} => coauthorsData \in {"loaded", "empty"}
  /\ pc \in {"fetch", "body", "done"} => publicationConfig \in {"loaded", "empty"}
  /\ pc # "done" => initCalls = <<>>
  /\ pc = "done" =>
       /\ Len(initCalls) = 1
       /\ initCalls[1].coauthors \in {"loaded", "empty"}
       /\ initCalls[1].config \in {"loaded", "empty"}
       /\ ~initContent.isNull
       /\ frames # <<>> \/ view.kind # "loading"

\* all three fetches failed, and init has ended with its one call
C11_Witness ==
  /\ pc = "done"
  /\ fetched.how \in {"network error", "not ok"}
  /\ Len(initCalls) = 1
  /\ initCalls[1].coauthors = "empty"
  /\ initCalls[1].config = "empty"

\* the citation view of an item is expanded when its container has the class
\* expanded, collapsed when it has not or there is no container; a collapsed
\* view is being expanded when its container is there and the class comes
\* with the next animation frame
IsExpanded(c) == c.shown /\ c.expanded
IsExpanding(c) == c.shown /\ (c.expanded \/ c.expanding)

\* C12 (as claimed): on the publications page, whenever publication items
\* are shown, a click on the Cite link of an item collapses its citation
\* view if it is expanded, expands it if it is collapsed, and leaves the
\* citation view of every other item as it is.
C12_AsClaimed ==
  \A i \in 1..Len(cites) :
    /\ IsExpanded(cites[i]) => ~IsExpanded(AfterCiteClick(i))
    /\ ~IsExpanded(cites[i]) => IsExpanding(AfterCiteClick(i))

\* the fields of a citation text other than type and citeKey
CitationFields ==
  {sTitleProp, sAuthor, sJournal, sBooktitle, sVolume, sNumber, sPages,
   YearProp, sPublisher}

\* C13 (as claimed): the citation text made by showBibtex for an entry has
\* the entry's citeKey, title and author as substrings; for every field
\* that is empty or absent it has no name= of that field; and it has no
\* bare ={} pair.
C13_AsClaimed ==
  made.op = "showBibtex" =>
    /\ Contains(made.val, given.pub[CiteKeyProp])
    /\ \A name \in {sTitleProp, sAuthor} :
         Has(given.pub, name) => Contains(made.val, given.pub[name])
    /\ \A name \in CitationFields :
         ~IsTruthy(Read(given.pub, name)) => ~Contains(made.val, name \o <<"=">>)
    /\ ~Contains(made.val, <<"=", "{", "}">>)

\* the entries of list whose year, or 'Unknown' for want of one, is year
WithYear(list, year) ==
  LET same(pub) == YearKey(pub) = year IN SelectSeq(list, same)
PubsOf(items) == [k \in 1..Len(items) |-> items[k].pub] \o <<>>
IsNumber(year) == year # sUnknown /\ ~parseInt(year).nan

\* C14 (as claimed): the callback of renderPublications makes one year
\* section per year value of the list given, 'Unknown' for the entries that
\* lack a year, each holding the entries of that year; the sections whose
\* years are numbers are in descending numeric order, and the section
\* 'Unknown' is the last.
C14_AsClaimed ==
  (made.op = "renderPublications" /\ given.list # <<>>) =>
    /\ made.val.kind = "list"
    /\ LET sections == made.val.items IN
       /\ { sections[k].year : k \in 1..Len(sections) }
            = { YearKey(given.list[k]) : k \in 1..Len(given.list) }
       /\ \A i, j \in 1..Len(sections) : i < j => sections[i].year # sections[j].year
       /\ \A k \in 1..Len(sections) :
            PubsOf(sections[k].items) = WithYear(given.list, sections[k].year)
       /\ \A i, j \in 1..Len(sections) :
            (i < j /\ IsNumber(sections[i].year) /\ IsNumber(sections[j].year))
              => parseInt(sections[i].year).val >= parseInt(sections[j].year).val
       /\ \A k \in 1..Len(sections) : sections[k].year = sUnknown => k = Len(sections)

\* C15 (as claimed): the callback of renderPublications rejects no entry:
\* every entry of the list given is in exactly one year section, once, and
\* the entries of a section are in the order they have in the list.
C15_AsClaimed ==
  (made.op = "renderPublications" /\ given.list # <<>>) =>
    /\ made.val.kind = "list"
    /\ Len(ItemsIn(made.val.items)) = Len(given.list)
    /\ \A k \in 1..Len(made.val.items) :
         /\ made.val.items[k].items # <<>>
         /\ PubsOf(made.val.items[k].items)
              = WithYear(given.list, made.val.items[k].year)
    /\ \A i, j \in 1..Len(made.val.items) :
         i < j => made.val.items[i].year # made.val.items[j].year

\* the names of the author field given, and the parts of the text made
AuthorNames ==
  LET pieces == split(given.pub[sAuthor], sAnd)
  IN [k \in 1..Len(pieces) |-> trim(pieces[k])] \o <<>>
AuthorParts == split(made.val, sCommaSpace)
HasWebsite(name) == IsTruthy(InfoOf(given.coauthors, name).website)

\* C16: formatAuthorsWithLinks makes one part per name of the author field
\* split at ' and ', in order, the parts joined by ', '. The part of a name
\* has the name in bold exactly when the name is 'Chaofeng Chen', the
\* co-first marker exactly when the name is in co_first_authors, the
\* corresponding marker exactly when it is in corresponding_authors, and is
\* a link to the website exactly when the coauthor data has a website for
\* the name; the part of a name in none of these is the name itself.
C16_AuthorsDecorated ==
  made.op = "formatAuthorsWithLinks" =>
    /\ Len(AuthorParts) = Len(AuthorNames)
    /\ \A k \in 1..Len(AuthorNames) :
         LET name == AuthorNames[k]
             part == AuthorParts[k]
             bold == name = sChaofengChen
             coFirst == InSeq(name, given.pubConfig.co_first_authors)
             corresponding == InSeq(name, given.pubConfig.corresponding_authors)
         IN /\ Contains(part, name)
            /\ Contains(part, <<"<","s","t","r","o","n","g",">">> \o name \o <<"<","/","s","t","r","o","n","g",">">>) <=> bold
            /\ Contains(part, <<"<","s","u","p",">","*","<","/","s","u","p",">">>) <=> coFirst
            /\ Contains(part, <<Envelope>>) <=> corresponding
            /\ Contains(part, <<"<","a"," ">>) <=> HasWebsite(name)
            /\ HasWebsite(name) =>
                 Contains(part, <<"<","a"," ","h","r","e","f","=","\"">> \o InfoOf(given.coauthors, name).website.val \o <<"\"">>)
            /\ (~bold /\ ~coFirst /\ ~corresponding /\ ~HasWebsite(name)) => part = name

\* three names: one with the co-first marker only, one with a link only,
\* one with the corresponding marker only
C16_Witness ==
  /\ made.op = "formatAuthorsWithLinks"
  /\ AuthorNames = << <<"A">>, <<"B">>, <<"C">> >>
  /\ made.val = <<"A">> \o <<"<","s","u","p",">","*","<","/","s","u","p",">">> \o <<","," ">>
                \o <<"<","a"," ","h","r","e","f","=","\"","w","\""," ","t","a","r","g","e","t","=","\"","_","b","l","a","n","k","\""," ","t","i","t","l","e","=","\"","f","\"",">","B","<","/","a",">">> \o <<","," ">>
                \o <<"C">> \o <<"<","s","u","p",">">> \o <<Envelope>> \o <<"<","/","s","u","p",">">>

\* a candidate is present when it is defined and not the empty string
Present(v) == ~v.isNull /\ Len(v.val) > 0
SomePresent(candidates) == \E k \in 1..Len(candidates) : Present(candidates[k])
FirstPresent(candidates) ==
  candidates[Min({ k \in 1..Len(candidates) : Present(candidates[k]) })].val
LinksLabelled(labels) ==
  { k \in 1..Len(made.val.links) : made.val.links[k].label \in labels }
HrefsLabelled(labels) == { made.val.links[k].href : k \in LinksLabelled(labels) }
ForPdf ==
  << given.pubConfig.pdf, Read(given.pub, sUrl), Read(given.pub, sPdf) >>
ForCode ==
  << given.pubConfig.github, Read(given.pub, sGithub),
     given.pubConfig.code, Read(given.pub, sCode) >>
HrefAttribute(href) == <<"h","r","e","f","=","\"">> \o href \o <<"\"">>

\* C17: the links of a publication item. There is a PDF link exactly when
\* one of config.pdf, entry url, entry pdf is present (defined and not
\* empty), and it leads to the first present of them in that order; a code
\* link (GitHub on the publications page, the stars badge elsewhere) is there
\* only when one of config.github, entry github, config.code, entry code is
\* present, always so on the publications page, and leads to the first
\* present of them; there is a DOI link exactly when the entry has a doi,
\* leading to https://doi.org/ followed by the doi; and the last link is
\* always the one Cite link. On the publications page every link is written
\* into the venue line.
C17_LinkSet ==
  made.op = "createPublicationElement" =>
    /\ (LinksLabelled({"PDF"}) # {}) <=> SomePresent(ForPdf)
    /\ Cardinality(LinksLabelled({"PDF"})) <= 1
    /\ \A href \in HrefsLabelled({"PDF"}) : href = FirstPresent(ForPdf)
    /\ (LinksLabelled({"GitHub", "stars"}) # {}) => SomePresent(ForCode)
    /\ Cardinality(LinksLabelled({"GitHub", "stars"})) <= 1
    /\ \A href \in HrefsLabelled({"GitHub", "stars"}) : href = FirstPresent(ForCode)
    /\ (given.publicationsPage /\ SomePresent(ForCode))
         => LinksLabelled({"GitHub"}) # {}
    /\ (LinksLabelled({"DOI"}) # {}) <=> Present(Read(given.pub, sDoi))
    /\ Cardinality(LinksLabelled({"DOI"})) <= 1
    /\ HrefsLabelled({"DOI"}) \subseteq {sDoiOrg \o Read(given.pub, sDoi).val}
    /\ LinksLabelled({"Cite"}) = {Len(made.val.links)}
    /\ LinksLabelled({"PDF", "GitHub", "stars", "DOI", "Cite"})
         = 1..Len(made.val.links)
    /\ given.publicationsPage =>
         \A k \in 1..Len(made.val.links) :
           Contains(made.val.venue, HrefAttribute(made.val.links[k].href))

\* an item of the publications page whose config has an empty pdf and an
\* empty github and the code o, for an entry with an empty url, the pdf q, an
\* empty github and the code c: its links are PDF to q, GitHub to o, and Cite
C17_Witness ==
  /\ made.op = "createPublicationElement"
  /\ given.publicationsPage
  /\ ForPdf = << Str(<<>>), Str(<<>>), Str(<<"q">>) >>
  /\ ForCode = << Str(<<>>), Str(<<>>), Str(<<"o">>), Str(<<"c">>) >>
  /\ made.val.links = << Link("PDF", <<"q">>, <<>>), Link("GitHub", <<"o">>, <<>>),
                         Link("Cite", sHash, <<"m">>) >>

\* the venue of the claim: the override when present, else the field of the
\* type, an absent field as the empty string
FieldOfType ==
  IF given.pub[TypeProp] = sArticle THEN sJournal
  ELSE IF given.pub[TypeProp] \in {sInproceedings, sConference} THEN sBooktitle
  ELSE sPublisher
ClaimedVenue ==
  IF Present(given.pubConfig.venue) THEN given.pubConfig.venue.val
  ELSE IF Present(Read(given.pub, FieldOfType)) THEN given.pub[FieldOfType]
  ELSE <<>>
\* ', <year>' and the acceptance annotation when configured
ClaimedSuffix ==
  <<",", " ">>
  \o (IF Present(Read(given.pub, YearProp)) THEN given.pub[YearProp] ELSE <<>>)
  \o (IF Present(given.pubConfig.accept_info)
      THEN <<" ","(","<","s","p","a","n"," ","c","l","a","s","s","=","\"","a","c","c","e","p","t","-","i","n","f","o","\"",">">> \o given.pubConfig.accept_info.val \o <<"<","/","s","p","a","n",">",")">>
      ELSE <<>>)
sStrong == <<"<","s","t","r","o","n","g",">">>
sStrongEnd == <<"<","/","s","t","r","o","n","g",">">>
WithoutStrong(html) == join(split(join(split(html, sStrong), <<>>), sStrongEnd), <<>>)

\* C18 (as claimed): the venue string is config.venue when that is present,
\* else the journal, booktitle or publisher field by the type of the entry
\* (the empty string when absent), followed by ', <year>' and the
\* acceptance annotation
C18_AsClaimed ==
  made.op = "createPublicationElement" =>
    made.val.venueHtml = ClaimedVenue \o ClaimedSuffix

\* C18 (amended): the venue string is that venue with each parenthesised
\* part (abc) written (<strong>abc</strong>), and nothing else changed,
\* followed by ', <year>' and the acceptance annotation
C18_VenueEmphasised ==
  made.op = "createPublicationElement" =>
    /\ made.val.venueHtml = boldAbbreviations(Str(ClaimedVenue)) \o ClaimedSuffix
    /\ WithoutStrong(boldAbbreviations(Str(ClaimedVenue))) = ClaimedVenue
    /\ ~given.publicationsPage => made.val.venue = made.val.venueHtml

\* the article a in the journal J (K) of the year 21, accepted as O
C18_Witness ==
  /\ made.op = "createPublicationElement"
  /\ given.pub[TypeProp] = sArticle
  /\ ClaimedVenue = <<"J", " ", "(", "K", ")">>
  /\ made.val.venueHtml = <<"J"," ","(","<","s","t","r","o","n","g",">","K","<","/","s","t","r","o","n","g",">",")",","," ","2","1"," ","(","<","s","p","a","n"," ","c","l","a","s","s","=","\"","a","c","c","e","p","t","-","i","n","f","o","\"",">","O","<","/","s","p","a","n",">",")">>

\* what parse gives for a text, on a new parser
EntriesOf(text) == parseWith(NewParser, PagePushed(text)).entries

\* C19: nothing cancels or guards a load. Once a load has completed, by
\* init() or by an upload, the stored text is the text of the load that
\* completed last, the held entries and currentPublications are its sorted
\* entries, and once no rendering is pending the container shows them under
\* the current filter: also when init() completes after an uploaded file was
\* parsed and rendered, so that the upload was the load requested last.
C19_LastCompletedLoadWins ==
  completedLast.by # "none" =>
    /\ bibData = Str(completedLast.text)
    /\ entries \in SortOutcomes(EntriesOf(completedLast.text))
    /\ currentPublications = entries
    /\ frames = <<>> => view \in Drawn(entries, currentFilter, entries)

\* a file was uploaded, parsed and drawn as a list while init() awaited its
\* fetch; then init() completed with another text, which is now stored, held
\* and drawn in place of the uploaded one
C19_Witness ==
  /\ pc = "done"
  /\ requestedLast.by = "upload"
  /\ completedLast.by = "init"
  /\ requestedLast.text # completedLast.text
  /\ initCalls[1].over.kind = "list"
  /\ frames = <<>>
  /\ view.kind = "list"
  /\ view # initCalls[1].over
  /\ bibData = Str(completedLast.text)

\* a value with an inner {...} group, where it is cut, and what is kept of it
IsCloser(ch) == ch \in {"}", "\""}
HasInnerGroup(value) ==
  \E i, j \in 1..Len(value) : i < j /\ value[i] = "{" /\ value[j] = "}"
Truncated(value) == trim(Between(value, 1, First(value, 1, IsCloser) - 1))
OneLine(value) ==
  \A i \in 1..(First(value, 1, IsCloser) - 1) : ~IsLineTerminator(value[i])
InnerGroupFields(b) == { k \in 1..Len(b.fields) : HasInnerGroup(b.fields[k].value) }
Delimited(ids) == \A i \in 1..Len(ids) : DelimitedPiece(ids[i])

\* entry e holds each field of block b whose value has an inner group under
\* its lower-cased name, cut before the first closing brace or double quote
\* after the opening delimiter, and trimmed
StoredTruncated(e, b) ==
  \A k \in InnerGroupFields(b) :
    /\ Has(e, toLowerCase(b.fields[k].name))
    /\ e[toLowerCase(b.fields[k].name)] = Truncated(b.fields[k].value)

\* C20 (as claimed): in a text of blocks with their commas, a field value
\* that contains an inner {...} group is stored cut at the first closing
\* brace or double quote that follows the opening delimiter; the rest of the
\* value is not stored under that field.
C20_AsClaimed ==
  (lastOp = "parse" /\ Delimited(src)) =>
    OnePerBlock(entries, SelectSeq(src, AcceptedPiece), StoredTruncated)

\* the item of the container whose Cite link is the i-th, in document order
ItemAt(i) == ItemsIn(view.items)[i]

\* C21 (as claimed): when no rendering is pending, a click on the Cite link
\* of an item whose citation view is not expanded opens a citation view on
\* that item, holding the citation text made from the entry of that item.
C21_AsClaimed ==
  frames = <<>> =>
    \A i \in 1..Len(cites) :
      ~IsExpanded(cites[i]) =>
        /\ AfterCiteClick(i).shown
        /\ bibtexText(AfterCiteClick(i).of) = bibtexText(ItemAt(i).pub)

\* every pending callback of one citation container has run, in some order:
\* the animation-frame callback of expandCitation and the removal timers of
\* collapseCitation
RECURSIVE Settled(_)
Settled(c) ==
  IF ~c.expanding /\ c.timers = 0 THEN {c}
  ELSE (IF c.expanding THEN Settled(AfterExpand(c)) ELSE {})
       \cup (IF c.timers > 0 THEN Settled(TimerFired(c)) ELSE {})

\* C22 (as claimed): a container that is there without the class expanded
\* while a removal timer of collapseCitation is pending, and is expanded
\* again through its toggle button or header, is still attached and expanded
\* once its pending callbacks have run, in whatever order they run.
C22_AsClaimed ==
  \A i \in 1..Len(cites) :
    (cites[i].shown /\ ~cites[i].expanded /\ cites[i].timers > 0) =>
      \A c \in Settled(expandCitation(cites[i])) : c.shown /\ c.expanded

\* the types a filter button stands for
TypesOf(filter) ==
  IF filter = sJournal THEN {sArticle}
  ELSE IF filter = sConference THEN {sInproceedings, sConference}
  ELSE IF filter = sPreprint THEN {sMisc, sUnpublished}
  ELSE {filter}
Matches(pub, filter) == filter = sAll \/ pub[TypeProp] \in TypesOf(filter)
MatchingIn(list, filter) ==
  { k \in 1..Len(list) : Matches(list[k], filter) }
ShownPubs ==
  IF view.kind = "list"
  THEN [k \in 1..Len(ItemsIn(view.items)) |-> ItemsIn(view.items)[k].pub] \o <<>>
  ELSE <<>>

\* list a holds the entries of list b at the positions of S, each once, in
\* some order
SameEntries(a, b, S) ==
  /\ Len(a) = Cardinality(S)
  /\ \A pub \in { b[k] : k \in S } :
       Cardinality({ k \in 1..Len(a) : a[k] = pub })
         = Cardinality({ k \in S : b[k] = pub })

\* C23 (as claimed): whenever no rendering is pending and one has run, the
\* publication items of the container are exactly the entries of
\* currentPublications that match currentFilter.
C23_AsClaimed ==
  (frames = <<>> /\ view.kind # "loading") =>
    SameEntries(ShownPubs, currentPublications,
                MatchingIn(currentPublications, currentFilter))


(***************************************************************************)
(* The gallery page: GalleryManager.  The cards of the container, the      *)
(* carousel of every card with more than one image, and the lightbox.      *)
(***************************************************************************)

MaxLive == 2      \* live interval timers of one carousel
MaxLeaked == 2    \* live interval timers of removed cards

notGallery == <<src, bibtex, entries, errors, lastOp, arg, ret, held,
                pageVars, renderVars, projectVars>>

\* createGalleryItem(item) and, for more than one image, setupCardCarousel:
\* currentIndex = 0 and startAutoPlay()
createGalleryItem(item) ==
  [item |-> item.id, n |-> item.n, carousel |-> item.n > 1,
   currentIndex |-> 0, autoPlayInterval |-> item.n > 1,
   live |-> IF item.n > 1 THEN 1 ELSE 0]

\* startAutoPlay of a card: the handle is overwritten by a new interval
cardStartAutoPlay(c) == [c EXCEPT !.autoPlayInterval = TRUE, !.live = @ + 1]

\* stopAutoPlay of a card: clears the interval the handle names, if any
cardStopAutoPlay(c) ==
  IF c.autoPlayInterval
    THEN [c EXCEPT !.autoPlayInterval = FALSE, !.live = @ - 1]
    ELSE c

\* nextImage of a card
cardNextImage(c) == [c EXCEPT !.currentIndex = (@ + 1) % c.n]

RECURSIVE SumLive(_)
SumLive(cs) == IF cs = <<>> THEN 0 ELSE Head(cs).live + SumLive(Tail(cs))

\* item._cleanupCarousel() of every card of the container
CleanedUp == [k \in DOMAIN cards |-> cardStopAutoPlay(cards[k])] \o <<>>

\* renderGallery(): clean up, empty the container, one card per album
renderGallery(filtered) ==
  /\ leaked + SumLive(CleanedUp) <= MaxLeaked
  /\ leaked' = leaked + SumLive(CleanedUp)
  /\ cards' = [k \in DOMAIN filtered |-> createGalleryItem(filtered[k])] \o <<>>
  /\ pointer' = 0

\* the filter of applyFilters
FilterMatch(item, f) ==
  /\ f.year = "all" \/ item.year = f.year
  /\ f.tag = "all" \/ f.tag \in item.tags

RECURSIVE FilterItems(_, _)
FilterItems(items, f) ==
  IF items = <<>> THEN <<>>
  ELSE IF FilterMatch(Head(items), f)
    THEN <<Head(items)>> \o FilterItems(Tail(items), f)
    ELSE FilterItems(Tail(items), f)

\* new GalleryManager(): init() up to the await of loadGalleryData
OpenGallery ==
  /\ galleryPc = "closed"
  /\ galleryPc' = "loading"
  /\ event' = Event("init", 0, 0)
  /\ UNCHANGED <<manager, filters, cards, pointer, leaked, modal, boxTimers>>
  /\ UNCHANGED notGallery

\* loadGalleryData got data: init() goes on to renderGallery
GalleryLoaded(data) ==
  /\ galleryPc = "loading"
  /\ galleryPc' = "ready"
  /\ manager' = [manager EXCEPT !.galleryData = data.gallery,
                                !.filteredData = data.gallery,
                                !.config = data.config]
  /\ renderGallery(data.gallery)
  /\ event' = Event("loaded", 0, 0)
  /\ UNCHANGED <<filters, modal, boxTimers>>
  /\ UNCHANGED notGallery

\* loadGalleryData threw: showError
GalleryFailed ==
  /\ galleryPc = "loading"
  /\ galleryPc' = "failed"
  /\ event' = Event("failed", 0, 0)
  /\ UNCHANGED <<manager, filters, cards, pointer, leaked, modal, boxTimers>>
  /\ UNCHANGED notGallery

YearOptions == {"all"} \cup { manager.galleryData[k].year : k \in DOMAIN manager.galleryData }
TagOptions == {"all"} \cup UNION { manager.galleryData[k].tags : k \in DOMAIN manager.galleryData }

\* applyFilters() with the selects at f
applyFilters(f) ==
  /\ galleryPc = "ready"
  /\ modal = "none"
  /\ filters' = f
  /\ manager' = [manager EXCEPT !.filteredData = FilterItems(manager.galleryData, f)]
  /\ renderGallery(FilterItems(manager.galleryData, f))
  /\ event' = Event("applyFilters", 0, 0)
  /\ UNCHANGED <<galleryPc, modal, boxTimers>>
  /\ UNCHANGED notGallery

\* change of the year select
ChangeYear(year) ==
  /\ year \in YearOptions \ {filters.year}
  /\ applyFilters([filters EXCEPT !.year = year])

\* change of the tag select
ChangeTag(tag) ==
  /\ tag \in TagOptions \ {filters.tag}
  /\ applyFilters([filters EXCEPT !.tag = tag])

\* resetFilters()
resetFilters ==
  /\ galleryPc = "ready"
  /\ modal = "none"
  /\ filters' = AllFilters
  /\ manager' = [manager EXCEPT !.filteredData = manager.galleryData]
  /\ renderGallery(manager.galleryData)
  /\ event' = Event("resetFilters", 0, 0)
  /\ UNCHANGED <<galleryPc, modal, boxTimers>>
  /\ UNCHANGED notGallery

\* mouseenter of card k: stopAutoPlay of its carousel
MouseEnter(k) ==
  /\ modal = "none"
  /\ pointer = 0
  /\ k \in DOMAIN cards
  /\ pointer' = k
  /\ cards' = IF cards[k].carousel
                THEN [cards EXCEPT ![k] = cardStopAutoPlay(@)]
                ELSE cards
  /\ event' = Event("mouseenter", k, cards[k].currentIndex)
  /\ UNCHANGED <<galleryPc, manager, filters, leaked, modal, boxTimers>>
  /\ UNCHANGED notGallery

\* mouseleave of card k: startAutoPlay of its carousel
MouseLeave(k) ==
  /\ pointer = k
  /\ k \in DOMAIN cards
  /\ cards[k].live < MaxLive
  /\ pointer' = 0
  /\ cards' = IF cards[k].carousel
                THEN [cards EXCEPT ![k] = cardStartAutoPlay(@)]
                ELSE cards
  /\ event' = Event("mouseleave", k, cards[k].currentIndex)
  /\ UNCHANGED <<galleryPc, manager, filters, leaked, modal, boxTimers>>
  /\ UNCHANGED notGallery

\* click of indicator j of card k: show image j, stop and restart auto-play
IndicatorClick(k, j) ==
  /\ modal = "none"
  /\ pointer = k
  /\ k \in DOMAIN cards
  /\ cards[k].carousel
  /\ j \in 0..(cards[k].n - 1)
  /\ cards' = [cards EXCEPT ![k] =
                 cardStartAutoPlay(cardStopAutoPlay([@ EXCEPT !.currentIndex = j]))]
  /\ event' = Event("indicator", k, cards[k].currentIndex)
  /\ UNCHANGED <<galleryPc, manager, filters, pointer, leaked, modal, boxTimers>>
  /\ UNCHANGED notGallery

\* an interval of the carousel of card k fires: nextImage
CardTick(k) ==
  /\ k \in DOMAIN cards
  /\ cards[k].live > 0
  /\ cards' = [cards EXCEPT ![k] = cardNextImage(@)]
  /\ event' = Event("cardTick", k, cards[k].currentIndex)
  /\ UNCHANGED <<galleryPc, manager, filters, pointer, leaked, modal, boxTimers>>
  /\ UNCHANGED notGallery


\* the images of the album the lightbox shows
LightboxImages ==
  LET shown == { k \in DOMAIN manager.galleryData :
                   manager.galleryData[k].id = manager.currentLightboxItem }
  IN  IF shown = {} THEN 0 ELSE manager.galleryData[CHOOSE k \in shown : TRUE].n

\* previousImage(): the index after it
PreviousIndex(i) == IF i > 0 THEN i - 1 ELSE i

\* nextImage(): the index after it, of n images
NextIndex(i, n) == IF i < n - 1 THEN i + 1 ELSE i

\* a callback that always advances
TickIndexNoWrap(i, n) == i + 1

\* the interval callback of startAutoPlay: the index after it
TickIndex(i, n) == IF i < n - 1 THEN NextIndex(i, n) ELSE 0

\* click of card k: openLightbox(item)
CardClick(k) ==
  /\ modal = "none"
  /\ pointer = k
  /\ k \in DOMAIN cards
  /\ manager' = [manager EXCEPT !.currentLightboxItem = cards[k].item,
                                !.currentImageIndex = 0]
  /\ modal' = "flex"
  /\ event' = Event("openLightbox", k, manager.currentImageIndex)
  /\ UNCHANGED <<galleryPc, filters, cards, pointer, leaked, boxTimers>>
  /\ UNCHANGED notGallery

\* stopAutoPlay() of the manager m with t live intervals
stopAutoPlay(m, t) ==
  [m |-> [m EXCEPT !.isAutoPlaying = FALSE, !.autoPlayInterval = FALSE],
   t |-> IF m.autoPlayInterval THEN t - 1 ELSE t]

\* startAutoPlay(): without a config object, reading
\* this.config.autoSlideInterval throws before setInterval is called
startAutoPlay(m, t) ==
  IF m.config = "object"
    THEN [m |-> [m EXCEPT !.isAutoPlaying = TRUE, !.autoPlayInterval = TRUE],
          t |-> t + 1]
    ELSE [m |-> [m EXCEPT !.isAutoPlaying = TRUE], t |-> t]

\* toggleAutoPlay()
toggleAutoPlay(m, t) ==
  IF m.isAutoPlaying THEN stopAutoPlay(m, t) ELSE startAutoPlay(m, t)

\* closeLightbox(): the close button, the backdrop, or Escape
closeLightbox ==
  /\ modal = "flex"
  /\ modal' = "none"
  /\ LET s == IF manager.isAutoPlaying
                THEN stopAutoPlay(manager, boxTimers)
                ELSE [m |-> manager, t |-> boxTimers]
     IN  /\ manager' = [s.m EXCEPT !.currentLightboxItem = 0,
                                   !.currentImageIndex = 0]
         /\ boxTimers' = s.t
  /\ event' = Event("closeLightbox", 0, manager.currentImageIndex)
  /\ UNCHANGED <<galleryPc, filters, cards, pointer, leaked>>
  /\ UNCHANGED notGallery

\* previousImage(): the previous button, or ArrowLeft
previousImage ==
  /\ modal = "flex"
  /\ manager' = [manager EXCEPT !.currentImageIndex = PreviousIndex(@)]
  /\ event' = Event("previousImage", 0, manager.currentImageIndex)
  /\ UNCHANGED <<galleryPc, filters, cards, pointer, leaked, modal, boxTimers>>
  /\ UNCHANGED notGallery

\* nextImage(): the next button, or ArrowRight
nextImage ==
  /\ modal = "flex"
  /\ manager' = [manager EXCEPT !.currentImageIndex = NextIndex(@, LightboxImages)]
  /\ event' = Event("nextImage", 0, manager.currentImageIndex)
  /\ UNCHANGED <<galleryPc, filters, cards, pointer, leaked, modal, boxTimers>>
  /\ UNCHANGED notGallery

\* toggleAutoPlay(): the auto-play button, or the space key
ToggleAutoPlay ==
  /\ modal = "flex"
  /\ manager' = toggleAutoPlay(manager, boxTimers).m
  /\ boxTimers' = toggleAutoPlay(manager, boxTimers).t
  /\ event' = Event("toggleAutoPlay", 0, manager.currentImageIndex)
  /\ UNCHANGED <<galleryPc, filters, cards, pointer, leaked, modal>>
  /\ UNCHANGED notGallery

\* an interval of startAutoPlay fires
LightboxTick ==
  /\ boxTimers > 0
  /\ manager.currentLightboxItem # 0
  /\ manager' = [manager EXCEPT !.currentImageIndex = TickIndex(@, LightboxImages)]
  /\ event' = Event("lightboxTick", 0, manager.currentImageIndex)
  /\ UNCHANGED <<galleryPc, filters, cards, pointer, leaked, modal, boxTimers>>
  /\ UNCHANGED notGallery

NextGallery ==
  \/ OpenGallery
  \/ \E data \in GalleryFiles : GalleryLoaded(data)
  \/ GalleryFailed
  \/ \E year \in {"all", "2023", "2024"} : ChangeYear(year)
  \/ \E tag \in {"all", "t", "u"} : ChangeTag(tag)
  \/ resetFilters
  \/ \E k \in 1..Len(GalleryItems) : MouseEnter(k)
  \/ \E k \in 1..Len(GalleryItems) : MouseLeave(k)
  \/ \E k \in 1..Len(GalleryItems) : \E j \in 0..2 : IndicatorClick(k, j)
  \/ \E k \in 1..Len(GalleryItems) : CardTick(k)
  \/ \E k \in 1..Len(GalleryItems) : CardClick(k)
  \/ closeLightbox
  \/ previousImage
  \/ nextImage
  \/ ToggleAutoPlay
  \/ LightboxTick

SpecGallery == Init /\ [][NextGallery]_vars


(***************************************************************************)
(* Claims about the gallery page.                                          *)
(***************************************************************************)

\* C24: every card of the container with more than one image has at most
\* one live carousel interval, whatever mouseenter, mouseleave and indicator
\* clicks happened, and no interval of a card that renderGallery removed is
\* still live.
C24_AsClaimed ==
  /\ \A k \in DOMAIN cards : cards[k].carousel => cards[k].live <= 1
  /\ leaked = 0


\* C25: while the mouse is over a card, between its mouseenter and the next
\* mouseleave, no interval of its carousel advances the image, whatever
\* indicators were clicked in between.
C25_AsClaimed == event.op = "cardTick" => pointer # event.card

\* C26: while the lightbox is open, currentImageIndex is within 0..n-1 for
\* the n images of the album shown; previousImage at the first image and
\* nextImage at the last one leave the index as it is; the auto-play
\* callback at the last image goes back to 0.
C26_IndexInRange ==
  modal = "flex" =>
    /\ manager.currentImageIndex \in 0..(LightboxImages - 1)
    /\ (event.op = "previousImage" /\ event.from = 0)
         => manager.currentImageIndex = 0
    /\ (event.op = "nextImage" /\ event.from = LightboxImages - 1)
         => manager.currentImageIndex = LightboxImages - 1
    /\ (event.op = "lightboxTick" /\ event.from = LightboxImages - 1)
         => manager.currentImageIndex = 0

\* the auto-play callback ran at the last of three images
C26_Witness ==
  /\ modal = "flex"
  /\ LightboxImages = 3
  /\ event = Event("lightboxTick", 0, 2)
  /\ manager.currentImageIndex = 0

\* C27: isAutoPlaying is true exactly when an interval of startAutoPlay is
\* live; at most one is live; none is live while the lightbox is closed
\* (currentLightboxItem is null).
C27_AsClaimed ==
  /\ manager.isAutoPlaying <=> boxTimers > 0
  /\ boxTimers <= 1
  /\ manager.currentLightboxItem = 0 => boxTimers = 0


(***************************************************************************)
(* The projects page: ProjectsManager.  getGitHubStars and its cache, the  *)
(* filter buttons, and the background load of the star counts.             *)
(***************************************************************************)

cacheExpiry == 60 * 60 * 1000       \* this.cacheExpiry, in milliseconds
ClockStep == 30 * 60 * 1000         \* the clock moves in steps of half an hour
MaxTicks == 2                       \* steps of the clock
MaxCalls == 2                       \* calls of getGitHubStars awaiting a response

notProjects == <<src, bibtex, entries, errors, lastOp, arg, ret, held,
                 pageVars, renderVars, galleryVars>>

\* fallbackData of getFallbackStars
FallbackData ==
  [r \in {"VQAssessment/FastVQA", "VQAssessment/DOVER", "csxmli2016/DFDNet",
          "chaofengc/FeMaSR", "chaofengc/Q-Bench", "Q-Future/Q-Instruct",
          "chaofengc/OneScorer", "chaofengc/PYIQA", "chaofengc/IQA-PyTorch",
          "chaofengc/PSFRGAN", "chaofengc/Face-SPARNet"} |->
     CASE r = "VQAssessment/FastVQA" -> 245
       [] r = "VQAssessment/DOVER" -> 189
       [] r = "csxmli2016/DFDNet" -> 1250
       [] r = "chaofengc/FeMaSR" -> 467
       [] r = "chaofengc/Q-Bench" -> 89
       [] r = "Q-Future/Q-Instruct" -> 156
       [] r = "chaofengc/OneScorer" -> 45
       [] r = "chaofengc/PYIQA" -> 890
       [] r = "chaofengc/IQA-PyTorch" -> 1200
       [] r = "chaofengc/PSFRGAN" -> 320
       [] OTHER -> 180]

\* the function-valued properties an object literal inherits
InheritedNames ==
  {"constructor", "toString", "valueOf", "hasOwnProperty", "isPrototypeOf",
   "propertyIsEnumerable", "toLocaleString"}

\* getFallbackStars(repo): fallbackData[repo] || 0
getFallbackStars(repo) ==
  IF repo \in DOMAIN FallbackData THEN Number(FallbackData[repo])
  ELSE IF repo \in InheritedNames THEN Inherited
  ELSE Number(0)

\* v > 0: a function compares as NaN
Positive(v) == v.kind = "number" /\ v.n > 0

\* v || 0 of a count that is a number or absent
OrZero(v) == IF v.kind = "number" /\ v.n # 0 THEN v ELSE Number(0)

\* an entry of any age
AnyCached(cached, t) == cached.has

\* cached && (Date.now() - cached.timestamp) < this.cacheExpiry
Fresh(cached, t) == cached.has /\ (t - cached.timestamp) < cacheExpiry

Resolved(v) == [how |-> "resolved", value |-> v]
Rejected == [how |-> "rejected", value |-> NotDefined]

\* cached ? cached.stars : 0
CachedOrZero(cached) == IF cached.has THEN Number(cached.stars) ELSE Number(0)

\* the fallback count if it is positive, else the cached count or 0
FallbackOrCached(repo, cached) ==
  IF Positive(getFallbackStars(repo))
    THEN Resolved(getFallbackStars(repo))
    ELSE Resolved(CachedOrZero(cached))

\* the catch block of getGitHubStars
OnError(repo, cached) == FallbackOrCached(repo, cached)

\* what the server does: an OK response with a count, or without one, or
\* with a body that is not JSON; a status; no response
Ok(count) == [kind |-> "ok", count |-> count, status |-> 200]
Status(status) == [kind |-> "status", count |-> NotDefined, status |-> status]
BadBody == [kind |-> "body", count |-> NotDefined, status |-> 200]
NetworkError == [kind |-> "network", count |-> NotDefined, status |-> 0]

Outcomes ==
  {Ok(Number(7)), Ok(NotDefined), BadBody, Status(403), Status(404),
   Status(500), NetworkError}

\* getGitHubStars after the response: what the promise settles to
AfterResponse(repo, cached, outcome) ==
  IF outcome.kind = "network" THEN OnError(repo, cached)
  ELSE IF outcome.kind = "status"
    THEN IF outcome.status = 403 THEN FallbackOrCached(repo, cached)
         ELSE IF outcome.status = 404 THEN Resolved(Number(0))
         ELSE OnError(repo, cached)
  ELSE IF outcome.kind = "body" THEN OnError(repo, cached)
  ELSE Resolved(OrZero(outcome.count))

\* this.githubStarsCache after the response
CacheAfter(cache, repo, outcome, t) ==
  IF outcome.kind = "ok"
    THEN [cache EXCEPT ![repo] = Cached(OrZero(outcome.count).n, t)]
    ELSE cache

\* a call of getGitHubStars(repo) made at time t that found cached
Call(repo, cached, t, project) ==
  [repo |-> repo, cached |-> cached, at |-> t, project |-> project]

\* the record of a call that settled
SettledCall(call, outcome, hit, result, wrote) ==
  [repo |-> call.repo, outcome |-> outcome, hit |-> hit,
   cached |-> call.cached, at |-> call.at, how |-> result.how,
   value |-> result.value, wrote |-> wrote]

\* the clock moves on
Tick ==
  /\ now < MaxTicks * ClockStep
  /\ now' = now + ClockStep
  /\ UNCHANGED <<projectsPc, projectsManager, projectsContainer, calls, starsRet>>
  /\ UNCHANGED notProjects

\* getGitHubStars(repo) up to its return from the cache or its await of
\* fetch, for project p of this.projects (0: for no project)
getGitHubStars(repo, p) ==
  LET cached == projectsManager.githubStarsCache[repo]
  IN  IF Fresh(cached, now)
        THEN /\ starsRet' = SettledCall(Call(repo, cached, now, p), NoOutcome,
                                        TRUE, Resolved(Number(cached.stars)),
                                        FALSE)
             /\ UNCHANGED calls
        ELSE /\ calls' = Append(calls, Call(repo, cached, now, p))
             /\ UNCHANGED starsRet

\* a call of getGitHubStars(repo)
CallStars(repo) ==
  /\ Len(calls) < MaxCalls
  /\ getGitHubStars(repo, 0)
  /\ UNCHANGED <<projectsPc, projectsManager, projectsContainer, now>>
  /\ UNCHANGED notProjects


\* a project of projects.json; github_stars is set by loadGitHubStars
Project(id, featured, tags, repo) ==
  [id |-> id, featured |-> featured, tags |-> tags, github_repo |-> repo,
   github_stars |-> NotDefined]

\* projects.json: projects with and without a repository, and none with one
ProjectFiles ==
  { << Project(1, TRUE, {"iqa"}, "chaofengc/FeMaSR"),
       Project(2, FALSE, {"iqa", "sr"}, "x/y"),
       Project(3, FALSE, {"sr"}, NoRepo) >>,
    << Project(1, FALSE, {"sr"}, NoRepo),
       Project(2, TRUE, {"iqa"}, NoRepo) >> }

ProjectTags == {"all", "featured", "iqa", "sr"}

StarsLoading == [kind |-> "loading", n |-> 0]

\* createProjectCard(project): the project and its star display
createProjectCard(project) ==
  [id |-> project.id,
   stars |-> IF project.github_repo = NoRepo THEN NotDefined
             ELSE IF project.github_stars = NotDefined THEN StarsLoading
             ELSE IF Positive(project.github_stars) THEN project.github_stars
             ELSE NotDefined]

\* renderProjects(list) of a list that is given
renderProjects(list) ==
  IF list = <<>>
    THEN Container("empty", <<>>)
    ELSE Container("cards", [k \in DOMAIN list |-> createProjectCard(list[k])] \o <<>>)

\* the projects filterProjects(tag) keeps
FilteredProjects(projects, tag) ==
  LET keep(project) ==
        IF tag = "all" THEN TRUE
        ELSE IF tag = "featured" THEN project.featured
        ELSE tag \in project.tags
  IN  SelectSeq(projects, keep)

\* the calls of getGitHubStars that loadGitHubStars makes; the cache of a new
\* manager is empty, so every one of them awaits its response
StarCalls(projects) ==
  LET withRepo(k) == projects[k].github_repo # NoRepo
      RECURSIVE From(_)
      From(k) == IF k > Len(projects) THEN <<>>
                 ELSE IF withRepo(k)
                   THEN <<Call(projects[k].github_repo, NotCached, now, k)>> \o From(k + 1)
                   ELSE From(k + 1)
  IN  From(1)

\* loadGitHubStars before its await: project.github_stars = 0 without a
\* repository
WithoutRepoZero(projects) ==
  [k \in DOMAIN projects |->
     IF projects[k].github_repo = NoRepo
       THEN [projects[k] EXCEPT !.github_stars = Number(0)]
       ELSE projects[k]] \o <<>>

\* new ProjectsManager(): init() up to the await of loadProjects
OpenProjects ==
  /\ projectsPc = "closed"
  /\ projectsPc' = "loading"
  /\ projectsContainer' = Container("loading", <<>>)
  /\ UNCHANGED <<projectsManager, calls, now, starsRet>>
  /\ UNCHANGED notProjects

\* loadProjects got the projects: init() renders them and starts
\* loadGitHubStars; when no project has a repository its promise is
\* fulfilled at once and the projects are rendered again
ProjectsLoaded(projects) ==
  /\ projectsPc = "loading"
  /\ projectsManager' =
       [projectsManager EXCEPT
          !.projects = WithoutRepoZero(projects),
          !.allTags = UNION { projects[k].tags : k \in DOMAIN projects }]
  /\ calls' = StarCalls(projects)
  /\ projectsPc' = IF StarCalls(projects) = <<>> THEN "ready" ELSE "stars"
  /\ projectsContainer' =
       IF StarCalls(projects) = <<>>
         THEN renderProjects(WithoutRepoZero(projects))
         ELSE renderProjects(projects)
  /\ UNCHANGED <<now, starsRet>>
  /\ UNCHANGED notProjects

\* loadProjects threw: showError
ProjectsFailed ==
  /\ projectsPc = "loading"
  /\ projectsPc' = "failed"
  /\ projectsContainer' = Container("error", <<>>)
  /\ UNCHANGED <<projectsManager, calls, now, starsRet>>
  /\ UNCHANGED notProjects

\* filterProjects(tag): click of a filter button or of a tag of a card
filterProjects(tag) ==
  /\ projectsPc \in {"stars", "ready"}
  /\ tag \in {"all", "featured"} \cup projectsManager.allTags
  /\ projectsManager' = [projectsManager EXCEPT !.currentFilter = tag]
  /\ projectsContainer' =
       renderProjects(FilteredProjects(projectsManager.projects, tag))
  /\ UNCHANGED <<projectsPc, calls, now, starsRet>>
  /\ UNCHANGED notProjects

Without(s, i) == SubSeq(s, 1, i - 1) \o SubSeq(s, i + 1, Len(s))

\* the stars loadGitHubStars stores for a call that settled
StoredStars(repo, result) ==
  IF result.how = "resolved" THEN result.value
  ELSE IF Positive(getFallbackStars(repo)) THEN getFallbackStars(repo)
  ELSE Number(0)

\* the response to call i arrives: getGitHubStars settles, loadGitHubStars
\* stores the count in the project, and after the last call of the page
\* the callback of init() renders the projects again
StarsResponse(i, outcome) ==
  /\ i \in DOMAIN calls
  /\ LET call == calls[i]
         result == AfterResponse(call.repo, call.cached, outcome)
         cache == CacheAfter(projectsManager.githubStarsCache, call.repo,
                             outcome, now)
         stored == IF call.project = 0
                     THEN projectsManager.projects
                     ELSE [projectsManager.projects EXCEPT
                             ![call.project].github_stars =
                                StoredStars(call.repo, result)]
         last == /\ call.project # 0
                 /\ \A j \in DOMAIN calls : j # i => calls[j].project = 0
     IN  /\ projectsManager' = [projectsManager EXCEPT
                                  !.githubStarsCache = cache,
                                  !.projects = stored]
         /\ calls' = Without(calls, i)
         /\ starsRet' = SettledCall(call, outcome, FALSE, result,
                                    cache # projectsManager.githubStarsCache)
         /\ IF last
              THEN /\ projectsPc' = "ready"
                   /\ projectsContainer' = renderProjects(stored)
              ELSE UNCHANGED <<projectsPc, projectsContainer>>
  /\ UNCHANGED now
  /\ UNCHANGED notProjects

NextProjects ==
  \/ OpenProjects
  \/ \E projects \in ProjectFiles : ProjectsLoaded(projects)
  \/ ProjectsFailed
  \/ \E tag \in ProjectTags : filterProjects(tag)
  \/ \E i \in 1..MaxCalls : \E outcome \in Outcomes : StarsResponse(i, outcome)
  \/ Tick

SpecProjects == Init /\ [][NextProjects]_vars

NextStars ==
  \/ \E repo \in Repos : CallStars(repo)
  \/ \E i \in 1..MaxCalls : \E outcome \in Outcomes : StarsResponse(i, outcome)
  \/ Tick

SpecStars == Init /\ [][NextStars]_vars

\* C28: the cards the projects page shows are exactly the projects that
\* match currentFilter ('all': every project; 'featured': the featured
\* ones; else the ones with the tag), also when the background load of the
\* star counts ends after a filter was chosen.
C28_AsClaimed ==
  projectsContainer.kind \in {"cards", "empty"} =>
    [k \in DOMAIN projectsContainer.cards |-> projectsContainer.cards[k].id]
      = [k \in DOMAIN FilteredProjects(projectsManager.projects,
                                      projectsManager.currentFilter) |->
           FilteredProjects(projectsManager.projects,
                            projectsManager.currentFilter)[k].id]


\* C29: getGitHubStars(repo) looks at the cache first: with an entry younger
\* than cacheExpiry it returns the cached count and makes no request.  The
\* cache is written only after an OK response.  Whatever the response (OK,
\* 403, 404, another status, no response) the promise is fulfilled with a
\* number that is not negative, and is never rejected.
C29_CacheFirstNeverRejects ==
  starsRet.repo # NoRepo =>
    LET young == /\ starsRet.cached.has
                 /\ starsRet.at - starsRet.cached.timestamp < 60 * 60 * 1000
    IN  /\ starsRet.how = "resolved"
        /\ starsRet.value.kind = "number"
        /\ starsRet.value.n >= 0
        /\ young => /\ starsRet.hit
                    /\ starsRet.outcome = NoOutcome
                    /\ starsRet.value = Number(starsRet.cached.stars)
        /\ ~young => /\ ~starsRet.hit
                     /\ starsRet.outcome \in Outcomes
        /\ starsRet.wrote => starsRet.outcome.kind = "ok"

\* a call answered from the cache, with the count an OK response left
\* there half an hour before
C29_Witness ==
  /\ starsRet.hit
  /\ starsRet.value = Number(7)
  /\ starsRet.at - starsRet.cached.timestamp = ClockStep
  /\ starsRet.outcome = NoOutcome

====
